---- MODULE Spec2Model ----
(***************************************************************************)
(* State-machine model of the shasha_bot engine: the priority-ordered      *)
(* command dispatcher with its get_msg callback correlation                *)
(* (router.py, commands.py, handlers/reply.py), the sliding-window rate    *)
(* limiter (router.SimpleRateLimiter) and the circuit breaker around the   *)
(* text provider (ai/deepseek.py).                                         *)
(*                                                                         *)
(* time.time() is the variable now, in whole seconds.  Python's None is    *)
(* the value None for ids, "none" for strings and <<>> for texts.          *)
(***************************************************************************)
EXTENDS Integers, Sequences, FiniteSets, TLC

None == 0 - 1

(* ------------------------------ bounds -------------------------------- *)
\* the clock advances in steps of TickStep seconds, up to MaxTime
TickStep == 30
MaxTime == 91
\* events handled on the connection
MaxEvents == 4
\* _chat calls made on one DeepSeekText client
MaxCalls == 3
\* settings.rate_limit_window_seconds / rate_limit_user_max_calls /
\* rate_limit_group_max_calls as configured for the model
window_seconds == 30
user_max_calls == 2
group_max_calls == 1
\* settings.stm_max_turns and settings.max_self_descriptions as configured for
\* the model
stm_max_turns == 10
max_self_descriptions == 2
\* settings.personality_update_min_msgs, and personality_update_cooldown_hours
\* * 3600 in the time units of the memory operations, as configured for the
\* model
personality_update_min_msgs == 2
personality_update_cooldown == 4
\* memory operations started on the managers of one process
MaxOps == 3
\* coroutines that can be in flight at once
MaxTasks == 2
\* writes that fail
MaxFailures == 1

(* ------------------------- program constants -------------------------- *)
\* cleanup_expired_pending_requests(..., ttl_seconds=60.0)
ttl_seconds == 60
\* DeepSeekText.retry_attempts, fail_threshold, cooldown_seconds
retry_attempts == 2
fail_threshold == 3
cooldown_seconds == 30
\* extract_ltm_from_stm: max_ltm, and the least short-term memory it works on
max_ltm == 50
min_stm_for_ltm == 5
\* analyze_personality_with_llm: the least short-term memory it works on
min_stm_for_personality == 10
\* MemorySettings.familiarity_step (0.01) and trust_step (0.005), in 1/Unit
familiarity_step == 100
trust_step == 50
\* MemorySettings.emotion_decay_alpha (0.7), in tenths
emotion_decay_alpha == 7

VARIABLES
    now,               \* time.time()
    pending_requests,  \* handle_message: Dict[str, ReplyContext]
    _user_calls,       \* SimpleRateLimiter._user_calls
    _group_calls,      \* SimpleRateLimiter._group_calls
    router_runs,       \* TRUE: the rules run router.run_*; FALSE: handlers.*
    nEvents,           \* events read from the websocket so far
    connected,         \* handle_message is still in its async for loop
    last,              \* history: what the last step did
    storedAt,          \* history: echo id -> time its live entry was stored
    consumed,          \* history: echo ids whose entry a callback has popped
    nStored,           \* history: echo id -> entries stored under it
    nReplied,          \* history: echo id -> callback replies sent for it
    api_key,           \* DeepSeekText.api_key is set
    _fail_count,       \* DeepSeekText._fail_count
    _circuit_open_until, \* DeepSeekText._circuit_open_until
    calls,             \* the _chat calls: where each is, its attempt, its result
    lastTrip,          \* history: time of the last failure that left the circuit open
    blast,             \* history: what the last step of a _chat call did
    disk,              \* the user's file under memory_data/users
    heap,              \* the UserMemoryState objects created so far
    rheap,             \* the RelationState objects created so far
    _user_cache,       \* MemoryManager._user_cache, per manager: a heap index or 0
    _relation_cache,   \* MemoryManager._relation_cache, per manager: an index or 0
    _bot_emotion,      \* MemoryManager._bot_emotion, per manager
    tasks,             \* the coroutines running a memory operation
    nOps,              \* memory operations started so far
    mhist              \* history of the memory operations

dvars == <<pending_requests, _user_calls, _group_calls, router_runs,
           nEvents, connected, last, storedAt, consumed, nStored, nReplied>>
bvars == <<api_key, _fail_count, _circuit_open_until, calls, lastTrip, blast>>
mvars == <<disk, heap, rheap, _user_cache, _relation_cache, _bot_emotion, tasks,
           nOps, mhist>>
vars == <<now, dvars, bvars, mvars>>

(* ------------------------------ cq.py --------------------------------- *)
\* A raw message is a sequence of segments: CQ codes and plain text.
At(qq)      == [seg |-> "at", v |-> qq, s |-> "none"]
Reply(id)   == [seg |-> "reply", v |-> id, s |-> "none"]
Image(url)  == [seg |-> "image", v |-> None, s |-> url]
Text(s)     == [seg |-> "text", v |-> None, s |-> s]

\* url.replace("&amp;", "&") on the urls of the model
UnescapeAmp(url) == IF url = "http://img?a=1&amp;b=2" THEN "http://img?a=1&b=2" ELSE url

\* the first [CQ:image,...url=http...] of the message, unescaped; "none" if absent
RECURSIVE extract_image_url(_)
extract_image_url(message) ==
    IF message = <<>> THEN "none"
    ELSE IF Head(message).seg = "image" THEN UnescapeAmp(Head(message).s)
    ELSE extract_image_url(Tail(message))

\* the id of the first [CQ:reply,id=...]; None if absent
RECURSIVE extract_reply_id(_)
extract_reply_id(message) ==
    IF message = <<>> THEN None
    ELSE IF Head(message).seg = "reply" THEN Head(message).v
    ELSE extract_reply_id(Tail(message))

contains_at(message, qq) ==
    /\ message # <<>>
    /\ \E i \in 1..Len(message) : message[i] = At(qq)

\* strip_reply(strip_at(message)).strip(): at and reply codes removed, and
\* empty text dropped at both ends; image codes stay in the text
RECURSIVE DropSegs(_)
DropSegs(message) ==
    IF message = <<>> THEN <<>>
    ELSE IF Head(message).seg \in {"at", "reply"} THEN DropSegs(Tail(message))
    ELSE <<Head(message)>> \o DropSegs(Tail(message))

RECURSIVE LStrip(_)
LStrip(t) == IF t # <<>> /\ Head(t) = Text("") THEN LStrip(Tail(t)) ELSE t

RECURSIVE RStrip(_)
RStrip(t) ==
    IF t # <<>> /\ t[Len(t)] = Text("") THEN RStrip(SubSeq(t, 1, Len(t) - 1)) ELSE t

normalize_user_text(message) == RStrip(LStrip(DropSegs(message)))

(* ------------------------------ events -------------------------------- *)
BotQQ == 99
Users == {10}
Groups == {7}
MsgIds == {1, 2}
\* f"reply_check_{message_id}"
EchoId(message_id) == <<"reply_check_", message_id>>

RawMsgs == {
    <<At(BotQQ), Text("hi")>>,
    <<Text("hi")>>,
    <<At(BotQQ), Image("http://img?a=1&amp;b=2")>>,
    <<Image("http://img?a=1&amp;b=2")>>,
    <<Text("menu")>>,
    <<At(BotQQ), Text("nickname=x")>> }

ReplyMsgs == { <<Reply(5), At(BotQQ), Text("hi")>> }

TargetMsgs == { <<Text("quoted")>>, <<Image("http://img?a=1&amp;b=2")>> }

BlankEvent ==
    [status |-> "none", echo |-> <<>>, post_type |-> "none", user_id |-> None,
     self_id |-> None, group_id |-> None, message_type |-> "none",
     message_id |-> None, raw_message |-> <<>>, data |-> <<>>]

MessageEvent(u, g, m, r) ==
    [BlankEvent EXCEPT !.post_type = "message", !.user_id = u, !.self_id = BotQQ,
        !.group_id = g, !.message_type = IF g = None THEN "private" ELSE "group",
        !.message_id = m, !.raw_message = r]

\* private messages of every shape, a group message, the quoting ones under
\* every message id and conversation, and an event that carries no message id
MessageEvents ==
    { MessageEvent(u, None, 1, r) : u \in Users, r \in RawMsgs }
    \cup { MessageEvent(u, g, 1, <<At(BotQQ), Text("hi")>>) : u \in Users, g \in Groups }
    \cup { MessageEvent(u, g, m, r) :
             u \in Users, g \in Groups \cup {None}, m \in MsgIds \cup {None}, r \in ReplyMsgs }
    \cup { MessageEvent(u, None, None, <<At(BotQQ), Text("hi")>>) : u \in Users }

SelfEvents == { MessageEvent(BotQQ, None, 1, <<At(BotQQ), Text("hi")>>) }

\* get_msg responses: status ok or failed, any echo; one of them also carries
\* the fields of a message event
CallbackEvents ==
    { [BlankEvent EXCEPT !.status = "ok", !.echo = EchoId(1), !.data = d] : d \in TargetMsgs }
    \cup
    { [BlankEvent EXCEPT !.status = st, !.echo = e, !.data = <<Text("quoted")>>] :
      st \in {"ok", "failed"}, e \in {EchoId(2), <<"other_", 1>>} }
    \cup
    { [BlankEvent EXCEPT !.status = "failed", !.echo = EchoId(1)] }
    \cup
    { [MessageEvent(10, None, 2, <<At(BotQQ), Text("hi")>>) EXCEPT
          !.status = "ok", !.echo = EchoId(1), !.data = <<Text("quoted")>>] }

OtherEvents == { [BlankEvent EXCEPT !.post_type = "meta_event"] }

Events == MessageEvents \cup SelfEvents \cup CallbackEvents \cup OtherEvents

(* ----------------------------- router.py ------------------------------ *)
\* ReplyContext
ReplyContext(user_id, group_id, message_type, message_id, raw_msg, created_at) ==
    [user_id |-> user_id, group_id |-> group_id, message_type |-> message_type,
     message_id |-> message_id, raw_msg |-> raw_msg, created_at |-> created_at]

\* from_event with the message fields read before the callback test
from_event_message_first(event) ==
    LET blank == [event |-> event, raw_msg |-> <<>>, user_id |-> None, group_id |-> None,
                  message_type |-> "private", message_id |-> None, bot_qq |-> None,
                  is_message_event |-> FALSE, is_reply_callback |-> FALSE,
                  is_mentioned |-> FALSE, img_url |-> "none", reply_id |-> None,
                  text |-> <<>>]
    IN  IF event.post_type = "message"
        THEN [blank EXCEPT
                !.is_message_event = TRUE,
                !.raw_msg = event.raw_message,
                !.user_id = event.user_id,
                !.group_id = event.group_id,
                !.message_type = IF event.message_type = "none" THEN "private"
                                 ELSE event.message_type,
                !.message_id = event.message_id,
                !.bot_qq = event.self_id,
                !.is_mentioned = contains_at(event.raw_message, event.self_id),
                !.img_url = extract_image_url(event.raw_message),
                !.reply_id = extract_reply_id(event.raw_message),
                !.text = normalize_user_text(event.raw_message)]
        ELSE IF /\ event.status = "ok"
                /\ Len(event.echo) > 0
                /\ event.echo[1] = "reply_check_"
        THEN [blank EXCEPT !.is_reply_callback = TRUE]
        ELSE blank

\* BotContext.from_event
from_event(event) ==
    LET blank == [event |-> event, raw_msg |-> <<>>, user_id |-> None, group_id |-> None,
                  message_type |-> "private", message_id |-> None, bot_qq |-> None,
                  is_message_event |-> FALSE, is_reply_callback |-> FALSE,
                  is_mentioned |-> FALSE, img_url |-> "none", reply_id |-> None,
                  text |-> <<>>]
    IN  IF /\ event.status = "ok"
           /\ Len(event.echo) > 0
           /\ event.echo[1] = "reply_check_"
        THEN [blank EXCEPT !.is_reply_callback = TRUE]
        ELSE IF event.post_type # "message" THEN blank
        ELSE [blank EXCEPT
                !.is_message_event = TRUE,
                !.raw_msg = event.raw_message,
                !.user_id = event.user_id,
                !.group_id = event.group_id,
                !.message_type = IF event.message_type = "none" THEN "private"
                                 ELSE event.message_type,
                !.message_id = event.message_id,
                !.bot_qq = event.self_id,
                !.is_mentioned = contains_at(event.raw_message, event.self_id),
                !.img_url = extract_image_url(event.raw_message),
                !.reply_id = extract_reply_id(event.raw_message),
                !.text = normalize_user_text(event.raw_message)]

\* BotContext.is_self_message
is_self_message(ctx) == ctx.event.user_id = ctx.event.self_id

\* _send_msg_payload, with the quoted message id and the kind of text kept apart
_send_msg_payload(user_id, group_id, message_type, quote, text) ==
    [action |-> "send_msg", message_type |-> message_type,
     group_id |-> IF message_type = "group" THEN group_id ELSE None,
     user_id |-> IF message_type = "group" THEN None ELSE user_id,
     quote |-> quote, text |-> text, echo |-> <<>>]

\* BotContext.send_text: the payloads it sends
send_text(ctx, text, quote) ==
    IF ~ctx.is_message_event THEN <<>>
    ELSE << _send_msg_payload(ctx.user_id, ctx.group_id, ctx.message_type,
                IF quote /\ ctx.message_id # None THEN ctx.message_id ELSE None, text) >>

\* the get_msg request of ReplyHandler.handle / run_mentioned_with_reply
GetMsgRequest(reply_id, echo_id) ==
    [action |-> "get_msg", message_type |-> "none", group_id |-> None, user_id |-> None,
     quote |-> reply_id, text |-> "none", echo |-> echo_id]


(* ---------------------- router.SimpleRateLimiter ---------------------- *)
\* _evict_old dropping also the timestamp that is exactly one window old
RECURSIVE _evict_old_inclusive(_, _)
_evict_old_inclusive(q, t) ==
    IF q # <<>> /\ Head(q) <= t - window_seconds THEN _evict_old_inclusive(Tail(q), t)
    ELSE q

\* SimpleRateLimiter._evict_old
RECURSIVE _evict_old(_, _)
_evict_old(q, t) ==
    IF q # <<>> /\ Head(q) < t - window_seconds THEN _evict_old(Tail(q), t) ELSE q

\* SimpleRateLimiter._allow: the store afterwards and the answer
_allow(store, key, limit, t) ==
    LET q0 == IF key \in DOMAIN store THEN store[key] ELSE <<>>
        q  == _evict_old(q0, t)
        ok == Len(q) < limit
        q2 == IF ok THEN Append(q, t) ELSE q
    IN  [store |-> [k \in DOMAIN store \cup {key} |-> IF k = key THEN q2 ELSE store[k]],
         ok |-> ok]

\* SimpleRateLimiter.allow (enabled): the user window first, then the group window
allow(ucalls, gcalls, user_id, group_id, t) ==
    LET u == IF user_id # None THEN _allow(ucalls, user_id, user_max_calls, t)
             ELSE [store |-> ucalls, ok |-> TRUE]
        g == IF u.ok /\ group_id # None THEN _allow(gcalls, group_id, group_max_calls, t)
             ELSE [store |-> gcalls, ok |-> TRUE]
    IN  [ucalls |-> u.store, gcalls |-> g.store, ok |-> u.ok /\ g.ok, uok |-> u.ok]

(* --------------------- pending callback entries ----------------------- *)
\* cleanup_expired_pending_requests: the entries that stay
cleanup_expired_pending_requests(pending, t) ==
    LET expired == { key \in DOMAIN pending :
                        /\ pending[key].created_at # 0
                        /\ t - pending[key].created_at > ttl_seconds }
    IN  [key \in DOMAIN pending \ expired |-> pending[key]]

\* pending_requests[echo_id] = entry
PendingStore(pending, echo_id, entry) ==
    [key \in DOMAIN pending \cup {echo_id} |-> IF key = echo_id THEN entry ELSE pending[key]]

\* pending_requests.pop(echo_id, None): the map afterwards
PendingPop(pending, echo_id) == [key \in DOMAIN pending \ {echo_id} |-> pending[key]]

(* ------------------------- handlers' effects -------------------------- *)
\* What running a handler did: the pending map afterwards, the payloads sent on
\* the websocket, the providers invoked, whether memory was written, the value
\* the handler returned and whether it raised.
Effect(pending, sent, ai, mem, handled) ==
    [pending |-> pending, sent |-> sent, ai |-> ai, asked |-> <<>>, mem |-> mem,
     handled |-> handled, raised |-> FALSE]

Raise(eff) == [eff EXCEPT !.raised = TRUE, !.handled = FALSE]

\* str.startswith on the texts of the model
StartsWith(s, p) ==
    \/ s = p
    \/ <<s, p>> \in { <<"nickname=x", "nickname=">>, <<"selfdesc=x", "selfdesc=">>,
                      <<"edit=x", "edit=">> }

\* user_msg_clean.startswith("编辑=")
IsEditText(t) == t # <<>> /\ Head(t).seg = "text" /\ StartsWith(Head(t).s, "edit=")
\* user_msg_clean[3:].strip() is not empty
HasEditPrompt(t) == Head(t).s # "edit=" \/ Len(t) > 1

\* handlers/reply.py  ReplyHandler.handle
ReplyHandler_handle(ctx, pending, t) ==
    IF ctx.message_id = None \/ ctx.reply_id = None
    THEN Effect(pending, <<>>, <<>>, FALSE, FALSE)
    ELSE LET echo_id == EchoId(ctx.message_id)
         IN  Effect(PendingStore(pending, echo_id,
                        ReplyContext(ctx.user_id, ctx.group_id, ctx.message_type,
                                     ctx.message_id, ctx.raw_msg, 0)),
                    <<GetMsgRequest(ctx.reply_id, echo_id)>>, <<>>, FALSE, TRUE)

\* router.py  run_mentioned_with_reply
run_mentioned_with_reply(ctx, pending, t) ==
    IF ctx.message_id = None \/ ctx.reply_id = None
    THEN Effect(pending, <<>>, <<>>, FALSE, TRUE)
    ELSE LET echo_id == EchoId(ctx.message_id)
         IN  Effect(PendingStore(pending, echo_id,
                        ReplyContext(ctx.user_id, ctx.group_id, ctx.message_type,
                                     ctx.message_id, ctx.raw_msg, t)),
                    <<GetMsgRequest(ctx.reply_id, echo_id)>>, <<>>, FALSE, TRUE)

\* a call of a provider with what it is given: the image url, or the prompt
\* made of the fetched message and the saved text
Call(provider, arg) == [provider |-> provider, arg |-> arg]

\* a callback that describes every image, whatever the saved text asks for
CallbackCalls_vision_only(target_msg, saved) ==
    IF extract_image_url(target_msg) # "none"
    THEN <<Call("vision", extract_image_url(target_msg))>>
    ELSE <<Call("deepseek", "full_prompt")>>

\* the provider a callback asks and what it gives it, from the fetched
\* message and the saved text
CallbackCalls(target_msg, saved) ==
    LET target_img_url == extract_image_url(target_msg)
        user_msg_clean == normalize_user_text(saved.raw_msg)
    IN  IF target_img_url # "none"
        THEN IF IsEditText(user_msg_clean)
             THEN IF HasEditPrompt(user_msg_clean)
                  THEN <<Call("image_edit", target_img_url)>>
                  ELSE <<>>
             ELSE <<Call("vision", target_img_url)>>
        ELSE <<Call("deepseek", "full_prompt")>>

\* the providers a callback asks
CallbackProviders(target_msg, saved) ==
    [i \in 1..Len(CallbackCalls(target_msg, saved)) |->
        CallbackCalls(target_msg, saved)[i].provider]

\* a callback handler that answers into the conversation the callback event
\* names, quoting the message id it carries
ReplyCallbackHandler_handle_to_event(ctx, pending, memory) ==
    LET echo_id == ctx.event.echo
        event == ctx.event
    IN  IF echo_id \notin DOMAIN pending
        THEN Effect(pending, <<>>, <<>>, FALSE, FALSE)
        ELSE LET saved == pending[echo_id]
             IN  [Effect(PendingPop(pending, echo_id),
                         << _send_msg_payload(event.user_id, event.group_id,
                                IF event.message_type = "none" THEN "private"
                                ELSE event.message_type,
                                event.message_id, "reply") >>,
                         CallbackProviders(ctx.event.data, saved),
                         memory /\ saved.user_id # None,
                         TRUE)
                  EXCEPT !.asked = CallbackCalls(ctx.event.data, saved)]

\* handlers/reply.py  ReplyCallbackHandler.handle
ReplyCallbackHandler_handle(ctx, pending, memory) ==
    LET echo_id == ctx.event.echo
    IN  IF echo_id \notin DOMAIN pending
        THEN Effect(pending, <<>>, <<>>, FALSE, FALSE)
        ELSE LET saved == pending[echo_id]
             IN  [Effect(PendingPop(pending, echo_id),
                         << _send_msg_payload(saved.user_id, saved.group_id,
                                saved.message_type, saved.message_id, "reply") >>,
                         CallbackProviders(ctx.event.data, saved),
                         memory /\ saved.user_id # None,
                         TRUE)
                  EXCEPT !.asked = CallbackCalls(ctx.event.data, saved)]

\* router.py  run_reply_callback (is_image_enabled() is True without a group config)
run_reply_callback(ctx, pending, memory) ==
    LET echo_id == ctx.event.echo
    IN  IF echo_id \notin DOMAIN pending
        THEN Effect(pending, <<>>, <<>>, FALSE, TRUE)
        ELSE LET saved == pending[echo_id]
             IN  [Effect(PendingPop(pending, echo_id),
                         << _send_msg_payload(saved.user_id, saved.group_id,
                                saved.message_type, saved.message_id, "reply") >>,
                         CallbackProviders(ctx.event.data, saved),
                         memory /\ saved.user_id # None,
                         TRUE)
                  EXCEPT !.asked = CallbackCalls(ctx.event.data, saved)]

\* handlers/text.py  TextHandler.handle  and  router.run_mentioned_text
TextHandler_handle(ctx, pending, memory) ==
    Effect(pending, send_text(ctx, "reply", FALSE), <<"deepseek">>,
           memory /\ ctx.user_id # None, TRUE)

\* handlers/image.py  ImageHandler.handle  and  router.run_mentioned_with_image
ImageHandler_handle(ctx, pending, memory) ==
    Effect(pending, send_text(ctx, "reply", TRUE), <<"vision">>,
           memory /\ ctx.user_id # None, TRUE)

\* handlers/chitchat.py  ChitchatHandler.handle  and  router.run_random_chitchat;
\* roll: random.randint(1, chance) == 1
ChitchatHandler_handle(ctx, pending, memory, roll) ==
    IF ~roll THEN Effect(pending, <<>>, <<>>, FALSE, FALSE)
    ELSE Effect(pending, send_text(ctx, "reply", FALSE), <<"deepseek">>,
                memory /\ ctx.user_id # None, TRUE)


(* ------------------------ commands_custom.py -------------------------- *)
\* settings.admin_user_ids
admin_user_ids == {}
\* settings.enable_memory: handle_message builds the memory manager
enable_memory == TRUE

\* re.search of the two admin patterns, ^keyword\s*= , on the texts of the model
RegexMatches(s, keyword) ==
    <<s, keyword>> \in { <<"set_rate=5", "set_rate">>, <<"switch_memory=on", "switch_memory">> }

\* one quoted notice, or the write to memory and its acknowledgement
MemoryCommand(ctx, pending, memory, text, writes) ==
    IF ~memory THEN Effect(pending, send_text(ctx, "memory_disabled", TRUE), <<>>, FALSE, TRUE)
    ELSE Effect(pending, send_text(ctx, text, TRUE), <<>>, writes, TRUE)

\* _set_random_rate, _switch_memory, _view_runtime_status: the group and admin
\* gates, then the group configuration, which handle_message never sets
AdminCommand(ctx, pending, needs_store) ==
    IF ~(ctx.message_type = "group" /\ ctx.group_id # None)
    THEN Effect(pending, send_text(ctx, "group_only", TRUE), <<>>, FALSE, TRUE)
    ELSE IF ctx.user_id = None \/ ctx.user_id \notin admin_user_ids
    THEN Effect(pending, send_text(ctx, "admin_only", TRUE), <<>>, FALSE, TRUE)
    ELSE IF needs_store THEN Raise(Effect(pending, <<>>, <<>>, FALSE, FALSE))
    ELSE Effect(pending, send_text(ctx, "no_group_config", TRUE), <<>>, FALSE, TRUE)

\* the run functions of CUSTOM_COMMANDS; inp.a: the wallpaper fetch succeeds,
\* inp.b: its description is cached
CustomRun(name, ctx, pending, memory, inp) ==
    CASE name = "daily_img" ->
            IF ~inp.a THEN Raise(Effect(pending, <<>>, <<>>, FALSE, FALSE))
            ELSE Effect(pending,
                        send_text(ctx, "image", FALSE) \o send_text(ctx, "description", FALSE),
                        IF inp.b THEN <<>> ELSE <<"vision">>, FALSE, TRUE)
      [] name = "menu" -> Effect(pending, send_text(ctx, "menu", FALSE), <<>>, FALSE, TRUE)
      [] name = "admin_set_random_rate" -> AdminCommand(ctx, pending, TRUE)
      [] name = "admin_switch_memory" -> AdminCommand(ctx, pending, TRUE)
      [] name = "admin_view_runtime_status" -> AdminCommand(ctx, pending, FALSE)
      [] name = "set_nickname" ->
            IF Head(ctx.text).s = "nickname=" /\ Len(ctx.text) = 1
            THEN Effect(pending, send_text(ctx, "empty", TRUE), <<>>, FALSE, TRUE)
            ELSE MemoryCommand(ctx, pending, memory, "nickname_set", TRUE)
      [] name = "add_self_desc" ->
            IF Head(ctx.text).s = "selfdesc=" /\ Len(ctx.text) = 1
            THEN Effect(pending, send_text(ctx, "empty", TRUE), <<>>, FALSE, TRUE)
            ELSE MemoryCommand(ctx, pending, memory, "selfdesc_added", TRUE)
      [] name = "view_memory" -> MemoryCommand(ctx, pending, memory, "summary", FALSE)
      [] name = "view_bot_emotion" -> MemoryCommand(ctx, pending, memory, "emotion", FALSE)
      [] name = "clear_self_desc" -> MemoryCommand(ctx, pending, memory, "cleared", TRUE)
      [] name = "clear_memory" -> MemoryCommand(ctx, pending, memory, "cleared", TRUE)

Rule(name, kind, keyword, require_mentioned) ==
    [name |-> name, kind |-> kind, keyword |-> keyword, require_mentioned |-> require_mentioned]

CUSTOM_COMMANDS == <<
    Rule("daily_img", "exact_match", "daily_img", FALSE),
    Rule("menu", "exact_match", "menu", FALSE),
    Rule("admin_set_random_rate", "regex", "set_rate", FALSE),
    Rule("admin_switch_memory", "regex", "switch_memory", FALSE),
    Rule("admin_view_runtime_status", "exact_match", "status", FALSE),
    Rule("set_nickname", "prefix", "nickname=", TRUE),
    Rule("add_self_desc", "prefix", "selfdesc=", TRUE),
    Rule("view_memory", "exact_match", "view_memory", TRUE),
    Rule("view_bot_emotion", "exact_match", "view_emotion", TRUE),
    Rule("clear_self_desc", "exact_match", "clear_selfdesc", TRUE),
    Rule("clear_memory", "exact_match", "clear_memory", TRUE) >>

(* ---------------------------- commands.py ----------------------------- *)
\* settings.random_reply_chance
random_reply_chance == 200

build_commands ==
    << Rule("reply_callback", "builtin", "none", FALSE) >>
    \o CUSTOM_COMMANDS
    \o << Rule("mentioned_with_image", "builtin", "none", FALSE),
          Rule("mentioned_with_reply", "builtin", "none", FALSE),
          Rule("mentioned_text", "builtin", "none", FALSE),
          Rule("random_chitchat", "builtin", "none", FALSE) >>

ContentRules == { build_commands[i].name : i \in 2..Len(build_commands) }

\* the match predicates: exact_match, prefix and regex of router.py and the
\* lambdas of build_commands
Match(cmd, ctx) ==
    CASE cmd.kind = "exact_match" ->
            /\ ctx.is_message_event
            /\ ~(cmd.require_mentioned /\ ~ctx.is_mentioned)
            /\ ctx.text = <<Text(cmd.keyword)>>
      [] cmd.kind = "prefix" ->
            /\ ctx.is_message_event
            /\ ~(cmd.require_mentioned /\ ~ctx.is_mentioned)
            /\ ctx.text # <<>>
            /\ Head(ctx.text).seg = "text"
            /\ StartsWith(Head(ctx.text).s, cmd.keyword)
      [] cmd.kind = "regex" ->
            /\ ctx.is_message_event
            /\ ~(cmd.require_mentioned /\ ~ctx.is_mentioned)
            /\ LET subject == IF ctx.text # <<>> THEN ctx.text ELSE ctx.raw_msg
               IN  /\ subject # <<>>
                   /\ Head(subject).seg = "text"
                   /\ RegexMatches(Head(subject).s, cmd.keyword)
      [] cmd.name = "reply_callback" -> ctx.is_reply_callback
      [] cmd.name = "mentioned_with_image" ->
            /\ ctx.is_message_event /\ ~is_self_message(ctx) /\ ctx.is_mentioned
            /\ ctx.img_url # "none"
      [] cmd.name = "mentioned_with_reply" ->
            /\ ctx.is_message_event /\ ~is_self_message(ctx) /\ ctx.is_mentioned
            /\ ctx.reply_id # None /\ ctx.img_url = "none"
      [] cmd.name = "mentioned_text" ->
            /\ ctx.is_message_event /\ ~is_self_message(ctx) /\ ctx.is_mentioned
            /\ ctx.img_url = "none" /\ ctx.reply_id = None
      [] cmd.name = "random_chitchat" ->
            /\ ctx.is_message_event /\ ~is_self_message(ctx) /\ ~ctx.is_mentioned
            /\ ctx.img_url = "none" /\ random_reply_chance > 0

\* the run function of a rule; env: the clock, the memory switch and which set of
\* run functions the rules were built from
RunHandler(cmd, ctx, pending, env, inp) ==
    CASE cmd.kind # "builtin" -> CustomRun(cmd.name, ctx, pending, env.memory, inp)
      [] cmd.name = "reply_callback" ->
            IF env.router THEN run_reply_callback(ctx, pending, env.memory)
            ELSE ReplyCallbackHandler_handle(ctx, pending, env.memory)
      [] cmd.name = "mentioned_with_image" -> ImageHandler_handle(ctx, pending, env.memory)
      [] cmd.name = "mentioned_with_reply" ->
            IF env.router THEN run_mentioned_with_reply(ctx, pending, env.t)
            ELSE ReplyHandler_handle(ctx, pending, env.t)
      [] cmd.name = "mentioned_text" -> TextHandler_handle(ctx, pending, env.memory)
      [] cmd.name = "random_chitchat" ->
            ChitchatHandler_handle(ctx, pending, env.memory, inp.a)

\* FunctionCommand.run handing on what the run function returned
FunctionCommand_run_reports(eff) == eff

\* FunctionCommand.run: awaits the run function and returns True
FunctionCommand_run(eff) == IF eff.raised THEN eff ELSE [eff EXCEPT !.handled = TRUE]

\* the rule loop of dispatch, from rule i on; acc gathers what has been done
RECURSIVE RunRules(_, _, _, _, _, _)
RunRules(commands, i, ctx, acc, env, inp) ==
    IF i > Len(commands) THEN [acc EXCEPT !.result = FALSE]
    ELSE LET cmd  == commands[i]
             acc1 == [acc EXCEPT !.evaluated = Append(@, cmd.name)]
         IN  IF ~Match(cmd, ctx) THEN RunRules(commands, i + 1, ctx, acc1, env, inp)
             ELSE LET ret  == RunHandler(cmd, ctx, acc.pending, env, inp)
                      eff  == FunctionCommand_run(ret)
                      acc2 == [acc1 EXCEPT !.pending = eff.pending,
                                           !.ran = Append(@, cmd.name),
                                           !.reported = Append(@, ret.handled),
                                           !.sent = @ \o eff.sent,
                                           !.ai = @ \o eff.ai,
                                           !.asked = @ \o eff.asked,
                                           !.mem = @ \/ eff.mem]
                  IN  IF eff.raised THEN [acc2 EXCEPT !.raised = TRUE]
                      ELSE IF eff.handled THEN [acc2 EXCEPT !.result = TRUE]
                      ELSE RunRules(commands, i + 1, ctx, acc2, env, inp)

\* dispatch rejecting a rate-limited event before it purges
dispatch_admission_first(commands, ctx, pending, ucalls, gcalls, env, inp) ==
    LET purged == cleanup_expired_pending_requests(pending, env.t)
        adm == IF ctx.is_message_event
               THEN allow(ucalls, gcalls, ctx.user_id, ctx.group_id, env.t)
               ELSE [ucalls |-> ucalls, gcalls |-> gcalls, ok |-> TRUE, uok |-> TRUE]
        acc0 == [pending |-> purged, after_purge |-> purged,
                 ucalls |-> adm.ucalls, gcalls |-> adm.gcalls, limited |-> ~adm.ok,
                 uok |-> adm.uok,
                 evaluated |-> <<>>, ran |-> <<>>, reported |-> <<>>, sent |-> <<>>,
                 ai |-> <<>>, asked |-> <<>>, mem |-> FALSE, result |-> FALSE,
                 raised |-> FALSE]
    IN  IF ~adm.ok
        THEN [acc0 EXCEPT !.pending = pending, !.after_purge = pending,
                          !.sent = send_text(ctx, "wait_notice", TRUE), !.result = TRUE]
        ELSE RunRules(commands, 1, ctx, acc0, env, inp)

\* dispatch: the purge, the admission check, then the rules
dispatch(commands, ctx, pending, ucalls, gcalls, env, inp) ==
    LET purged == cleanup_expired_pending_requests(pending, env.t)
        adm == IF ctx.is_message_event
               THEN allow(ucalls, gcalls, ctx.user_id, ctx.group_id, env.t)
               ELSE [ucalls |-> ucalls, gcalls |-> gcalls, ok |-> TRUE, uok |-> TRUE]
        acc0 == [pending |-> purged, after_purge |-> purged,
                 ucalls |-> adm.ucalls, gcalls |-> adm.gcalls, limited |-> ~adm.ok,
                 uok |-> adm.uok,
                 evaluated |-> <<>>, ran |-> <<>>, reported |-> <<>>, sent |-> <<>>,
                 ai |-> <<>>, asked |-> <<>>, mem |-> FALSE, result |-> FALSE,
                 raised |-> FALSE]
    IN  IF ~adm.ok
        THEN [acc0 EXCEPT !.sent = send_text(ctx, "wait_notice", TRUE), !.result = TRUE]
        ELSE RunRules(commands, 1, ctx, acc0, env, inp)


(* ------------------- handler.py: the connection loop ------------------ *)
EchoIds == { EchoId(m) : m \in MsgIds }

\* what a handler draws: a, the roll of the random chat (or the wallpaper fetch
\* succeeding); b, the wallpaper's description being cached
InputsFor(ctx) ==
    IF ctx.is_message_event /\ ~ctx.is_mentioned
    THEN [a : BOOLEAN, b : {FALSE}]
    ELSE [a : {TRUE}, b : {FALSE}]

NoStep ==
    [kind |-> "none", status |-> "none", echo |-> <<>>, message_id |-> None,
     user_id |-> None, is_message_event |-> FALSE,
     is_reply_callback |-> FALSE, had_entry |-> FALSE, was_consumed |-> FALSE,
     matching |-> {}, u_before |-> <<>>, u_ok |-> TRUE,
     after_purge |-> <<>>, stored_before |-> <<>>, limited |-> FALSE,
     evaluated |-> <<>>, ran |-> <<>>, reported |-> <<>>, sent |-> <<>>, ai |-> <<>>,
     asked |-> <<>>, data |-> <<>>, post_type |-> "none", beat |-> 0, mem |-> FALSE,
     result |-> FALSE, raised |-> FALSE]

\* the echo ids under which this dispatch stored an entry
StoredBy(sent) == { sent[i].echo : i \in { j \in 1..Len(sent) : sent[j].action = "get_msg" } }

DInit ==
    /\ pending_requests = <<>>
    /\ _user_calls = <<>>
    /\ _group_calls = <<>>
    /\ router_runs \in BOOLEAN
    /\ nEvents = 0
    /\ connected = TRUE
    /\ last = NoStep
    /\ storedAt = <<>>
    /\ consumed = {}
    /\ nStored = [e \in EchoIds |-> 0]
    /\ nReplied = [e \in EchoIds |-> 0]

\* handle_message: an event of the bot's own is skipped
SkipSelfMessage(event) ==
    /\ connected
    /\ nEvents < MaxEvents
    /\ LET ctx == from_event(event)
       IN  /\ ctx.is_message_event /\ is_self_message(ctx)
           /\ last' = [NoStep EXCEPT !.kind = "skip", !.is_message_event = TRUE,
                                     !.message_id = ctx.message_id]
    /\ nEvents' = nEvents + 1
    /\ UNCHANGED <<now, pending_requests, _user_calls, _group_calls, router_runs,
                   connected, storedAt, consumed, nStored, nReplied>>
    /\ UNCHANGED <<bvars, mvars>>

\* handle_message: json.loads raises on a message that is no JSON.  The try
\* around the loop catches ConnectionClosed only, so the exception leaves the
\* loop and handle_message
BadMessage ==
    /\ connected
    /\ nEvents < MaxEvents
    /\ nEvents' = nEvents + 1
    /\ connected' = FALSE
    /\ last' = [NoStep EXCEPT !.kind = "bad_message", !.raised = TRUE]
    /\ UNCHANGED <<now, pending_requests, _user_calls, _group_calls, router_runs,
                   storedAt, consumed, nStored, nReplied>>
    /\ UNCHANGED <<bvars, mvars>>

\* the history of one dispatch d of the context ctx
StepOf(ctx, d) ==
    [kind |-> "dispatch", status |-> ctx.event.status, echo |-> ctx.event.echo,
     message_id |-> ctx.message_id, user_id |-> ctx.user_id,
     is_message_event |-> ctx.is_message_event,
     matching |-> { build_commands[i].name :
                      i \in { j \in 1..Len(build_commands) : Match(build_commands[j], ctx) } },
     u_before |-> IF ctx.user_id \in DOMAIN _user_calls THEN _user_calls[ctx.user_id]
                  ELSE <<>>,
     u_ok |-> d.uok,
     is_reply_callback |-> ctx.is_reply_callback,
     had_entry |-> ctx.event.echo \in DOMAIN pending_requests,
     was_consumed |-> ctx.event.echo \in consumed,
     after_purge |-> d.after_purge,
     stored_before |-> [k \in DOMAIN d.after_purge |-> storedAt[k]],
     limited |-> d.limited, evaluated |-> d.evaluated, ran |-> d.ran,
     reported |-> d.reported,
     sent |-> d.sent, ai |-> d.ai, asked |-> d.asked, data |-> ctx.event.data,
     post_type |-> ctx.event.post_type,
     \* the parity of the meta events dispatched in a row
     beat |-> IF ctx.event.post_type = "meta_event" THEN 1 - last.beat ELSE 0,
     mem |-> d.mem, result |-> d.result, raised |-> d.raised]

\* the dispatcher's state and history after the dispatch d of the event; an
\* exception that dispatch lets through leaves the loop of handle_message
Dispatched(event, ctx, d) ==
    LET stored == StoredBy(d.sent)
        popped == IF "reply_callback" \in { d.ran[i] : i \in 1..Len(d.ran) }
                     /\ event.echo \in DOMAIN d.after_purge
                  THEN {event.echo} ELSE {}
    IN  /\ pending_requests' = d.pending
        /\ _user_calls' = d.ucalls
        /\ _group_calls' = d.gcalls
        /\ last' = StepOf(ctx, d)
        /\ connected' = ~d.raised
        /\ storedAt' = [k \in DOMAIN d.pending |->
                           IF k \in stored THEN now ELSE storedAt[k]]
        /\ consumed' = consumed \cup popped
        /\ nStored' = [e \in EchoIds |->
                          nStored[e] + IF e \in stored THEN 1 ELSE 0]
        /\ nReplied' = [e \in EchoIds |->
                          nReplied[e]
                          + IF e \in popped /\ d.sent # <<>> THEN 1 ELSE 0]

\* handle_message: one event is read, turned into a context and dispatched
HandleEvent(event) ==
    /\ connected
    /\ nEvents < MaxEvents
    /\ LET ctx == from_event(event)
           env == [t |-> now, memory |-> enable_memory, router |-> router_runs]
       IN  /\ ~(ctx.is_message_event /\ is_self_message(ctx))
           /\ \E inp \in InputsFor(ctx) :
              \E d \in { dispatch(build_commands, ctx, pending_requests, _user_calls,
                                  _group_calls, env, inp) } :
                Dispatched(event, ctx, d)
    /\ nEvents' = nEvents + 1
    /\ UNCHANGED <<now, router_runs>>
    /\ UNCHANGED <<bvars, mvars>>

\* time passes between two events
Tick ==
    /\ now + TickStep <= MaxTime
    /\ now' = now + TickStep
    /\ last' = [NoStep EXCEPT !.kind = "tick"]
    /\ UNCHANGED <<pending_requests, _user_calls, _group_calls, router_runs,
                   nEvents, connected, storedAt, consumed, nStored, nReplied>>
    /\ UNCHANGED <<bvars, mvars>>

\* messages that mention the bot and quote message 5: a comment, an edit
\* instruction, and "edit=" with no instruction
QuotingMsgs ==
    { <<Reply(5), At(BotQQ), Text("hi")>>,
      <<Reply(5), At(BotQQ), Text("edit=x")>>,
      <<Reply(5), At(BotQQ), Text("edit=")>> }

\* the quoting messages of a user in private, the comment also in a group
\* and under another message id, and the comment of another user
QuotingEvents ==
    { MessageEvent(u, None, 1, r) : u \in Users, r \in QuotingMsgs }
    \cup { MessageEvent(u, g, m, <<Reply(5), At(BotQQ), Text("hi")>>) :
             u \in Users, g \in Groups \cup {None}, m \in MsgIds }
    \cup { MessageEvent(11, None, 2, <<Reply(5), At(BotQQ), Text("hi")>>) }

\* the connection of handle_message with quoting messages and get_msg
\* responses only
CallbackNext ==
    \/ \E event \in QuotingEvents : HandleEvent(event)
    \/ \E event \in CallbackEvents : HandleEvent(event)
    \/ Tick

\* the last value the clock takes
LastTime == 1 + ((MaxTime - 1) \div TickStep) * TickStep

\* handle_message on a connection whose messages arrive while the clock can
\* still run past their entries' time to live; callbacks and other events
\* arrive at any time
EarlyEvent(event) ==
    /\ event \in MessageEvents => LastTime - now > ttl_seconds
    /\ HandleEvent(event)

\* handle_message: a meta event (the heartbeat of the transport) is read and
\* dispatched; these keep arriving for as long as the connection lasts
Heartbeat ==
    /\ connected
    /\ \E event \in OtherEvents :
          LET ctx == from_event(event)
              env == [t |-> now, memory |-> enable_memory, router |-> router_runs]
          IN  \E inp \in InputsFor(ctx) :
              \E d \in { dispatch(build_commands, ctx, pending_requests, _user_calls,
                                  _group_calls, env, inp) } :
                Dispatched(event, ctx, d)
    /\ UNCHANGED <<now, router_runs, nEvents>>
    /\ UNCHANGED <<bvars, mvars>>

KeepNext ==
    \/ \E event \in Events : SkipSelfMessage(event)
    \/ BadMessage
    \/ \E event \in Events : EarlyEvent(event)
    \/ Heartbeat
    \/ Tick

DNext ==
    \/ \E event \in Events : SkipSelfMessage(event)
    \/ BadMessage
    \/ \E event \in Events : HandleEvent(event)
    \/ Tick


(* ------------------------- memory/models.py --------------------------- *)
\* the floats of the relation state, the personality factors and the bot
\* emotion, in units of 1/Unit; message importance is in units of 1/100
Unit == 10000

\* an empty JSON object, {}
EmptyDict == [k \in {} |-> None]

\* dict.get(key, default)
Get(data, key, default) == IF key \in DOMAIN data THEN data[key] ELSE default

\* STMMessage
STMMessage(role, text, ts, meta) == [role |-> role, text |-> text, ts |-> ts, meta |-> meta]

\* STMMessage.to_dict: asdict
STMMessage_to_dict(m) == [k \in {"role", "text", "ts", "meta"} |-> m[k]]

\* STMMessage.from_dict (a record written by to_dict has a ts)
STMMessage_from_dict(data) ==
    STMMessage(Get(data, "role", "user"), Get(data, "text", ""), Get(data, "ts", 0),
               Get(data, "meta", EmptyDict))

\* PersonalityFactors, to_dict and from_dict
PersonalityFactors(talkative, optimism, stability, politeness) ==
    [talkative |-> talkative, optimism |-> optimism, stability |-> stability,
     politeness |-> politeness]

DefaultPersonality == PersonalityFactors(Unit \div 2, Unit \div 2, Unit \div 2, Unit \div 2)

PersonalityFactors_to_dict(f) ==
    [k \in {"talkative", "optimism", "stability", "politeness"} |-> f[k]]

PersonalityFactors_from_dict(data) ==
    PersonalityFactors(Get(data, "talkative", Unit \div 2), Get(data, "optimism", Unit \div 2),
                       Get(data, "stability", Unit \div 2), Get(data, "politeness", Unit \div 2))

\* UserProfile, to_dict and from_dict
UserProfile(nickname, self_descriptions) ==
    [nickname |-> nickname, self_descriptions |-> self_descriptions]

UserProfile_to_dict(p) ==
    [k \in {"nickname", "self_descriptions"} |-> p[k]]

UserProfile_from_dict(data) ==
    UserProfile(Get(data, "nickname", ""), Get(data, "self_descriptions", <<>>))

\* UserCounters, to_dict and from_dict
UserCounters(total_msgs, new_msgs, last_summary_ts, version) ==
    [total_msgs |-> total_msgs, new_msgs_since_last_summary |-> new_msgs,
     last_summary_ts |-> last_summary_ts, version |-> version]

UserCounters_to_dict(c) ==
    [k \in {"total_msgs", "new_msgs_since_last_summary", "last_summary_ts", "version"} |-> c[k]]

UserCounters_from_dict(data) ==
    UserCounters(Get(data, "total_msgs", 0), Get(data, "new_msgs_since_last_summary", 0),
                 Get(data, "last_summary_ts", 0), Get(data, "version", 1))

\* UserMemoryState(user_id=user_id)
UserMemoryState(user_id) ==
    [user_id |-> user_id,
     profile |-> UserProfile("", <<>>),
     personality |-> DefaultPersonality,
     short_term_memory |-> <<>>,
     long_term_memory |-> <<>>,
     counters |-> UserCounters(0, 0, 0, 1)]

\* UserMemoryState.to_dict: the six keys of the record; there is no relation key
UserMemoryState_to_dict(state) ==
    [k \in {"user_id", "profile", "personality", "short_term_memory",
            "long_term_memory", "counters"} |->
        CASE k = "user_id" -> state.user_id
          [] k = "profile" -> UserProfile_to_dict(state.profile)
          [] k = "personality" -> PersonalityFactors_to_dict(state.personality)
          [] k = "short_term_memory" ->
                [i \in 1..Len(state.short_term_memory) |->
                    STMMessage_to_dict(state.short_term_memory[i])]
          [] k = "long_term_memory" -> state.long_term_memory
          [] k = "counters" -> UserCounters_to_dict(state.counters)]

\* UserMemoryState.from_dict
UserMemoryState_from_dict(data) ==
    [user_id |-> Get(data, "user_id", ""),
     profile |-> UserProfile_from_dict(Get(data, "profile", EmptyDict)),
     personality |-> PersonalityFactors_from_dict(Get(data, "personality", EmptyDict)),
     short_term_memory |->
        LET l == Get(data, "short_term_memory", <<>>)
        IN  [i \in 1..Len(l) |-> STMMessage_from_dict(l[i])],
     long_term_memory |-> Get(data, "long_term_memory", <<>>),
     counters |-> UserCounters_from_dict(Get(data, "counters", EmptyDict))]

\* RelationState(user_id=user_id), to_dict and from_dict
RelationState(user_id) ==
    [user_id |-> user_id, familiarity |-> Unit \div 10, trust |-> Unit \div 2,
     last_interaction_ts |-> 0]

RelationState_to_dict(r) ==
    [k \in {"user_id", "familiarity", "trust", "last_interaction_ts"} |-> r[k]]

RelationState_from_dict(data) ==
    [user_id |-> Get(data, "user_id", ""),
     familiarity |-> Get(data, "familiarity", Unit \div 10),
     trust |-> Get(data, "trust", Unit \div 2),
     last_interaction_ts |-> Get(data, "last_interaction_ts", 0)]

\* BotEmotionState()
BotEmotionState(V, A, D) ==
    [V |-> V, A |-> A, D |-> D,
     V0 |-> (3 * Unit) \div 10, A0 |-> (3 * Unit) \div 10, D0 |-> Unit \div 2]

DefaultBotEmotion == BotEmotionState((3 * Unit) \div 10, (3 * Unit) \div 10, Unit \div 2)

Max(a, b) == IF a > b THEN a ELSE b
Min(a, b) == IF a < b THEN a ELSE b

\* BotEmotionState.clamp
clamp(s) ==
    [s EXCEPT !.V = Max(0 - Unit, Min(Unit, @)), !.A = Max(0, Min(Unit, @)),
              !.D = Max(0, Min(Unit, @))]

(* ------------------------- memory/storage.py -------------------------- *)
\* the user's file: absent, a JSON object, or bytes that are no JSON object
\* (what a write that stopped part-way leaves)
FileAbsent == [kind |-> "absent", data |-> EmptyDict]
FileTruncated == [kind |-> "truncated", data |-> EmptyDict]
FileJson(data) == [kind |-> "json", data |-> data]

\* _sync_read_json: {} when the file is absent or cannot be parsed
_sync_read_json(file) == IF file.kind = "json" THEN file.data ELSE EmptyDict

(* ------------------------- memory/manager.py -------------------------- *)
\* A text is its body, its length, the number of important keywords it holds
\* and its first 20 characters.
TextOf(body, len, kw) == [body |-> body, len |-> len, kw |-> kw, head |-> body]

\* text[:200]
Cut200(text) ==
    IF text.len > 200 THEN [text EXCEPT !.body = <<"cut", @>>, !.len = 200] ELSE text

\* a trim that drops the newest turns instead
TrimStmNewest(stm) == SubSeq(stm, 1, Min(Len(stm), stm_max_turns))

\* the pop(0) loop of append_to_stm
RECURSIVE TrimStm(_)
TrimStm(stm) == IF Len(stm) > stm_max_turns THEN TrimStm(Tail(stm)) ELSE stm

\* append_to_stm between get_user_state and save_user_state
AppendToStm(state, msg) ==
    [state EXCEPT
        !.short_term_memory = TrimStm(Append(@, msg)),
        !.counters = IF msg.role = "user"
                     THEN [@ EXCEPT !.total_msgs = @ + 1,
                                    !.new_msgs_since_last_summary = @ + 1]
                     ELSE @]

\* add_self_description between get_user_state and save_user_state
AddSelfDescription(state, desc) ==
    LET l == state.profile.self_descriptions
        kept == IF Len(l) >= max_self_descriptions THEN Tail(l) ELSE l
    IN  [state EXCEPT !.profile.self_descriptions = Append(kept, desc)]

\* update_relation_on_interaction between get_relation and save_relation
InteractRelation(relation, t) ==
    [relation EXCEPT !.familiarity = Min(Unit, @ + familiarity_step),
                     !.last_interaction_ts = t]

\* a decrement of trust that has no floor
NegativeRelation_unfloored(relation, intensity) ==
    IF intensity > 6
    THEN [relation EXCEPT !.trust = @ - (trust_step * intensity) \div 10]
    ELSE relation

\* update_relation_on_negative_emotion; intensity in tenths
NegativeRelation(relation, intensity) ==
    IF intensity > 6
    THEN [relation EXCEPT
            !.trust = Max(Unit \div 10, @ - (trust_step * intensity) \div 10)]
    ELSE relation

\* _calculate_message_importance, in hundredths; meta.intensity in tenths
_calculate_message_importance(text, meta) ==
    LET base == 30
        len1 == IF text.len > 50 THEN 10 ELSE 0
        len2 == IF text.len > 100 THEN 10 ELSE 0
        kws  == 10 * text.kw
        emo  == IF /\ Get(meta, "emotion", "neutral") \in {"happy", "sad", "angry"}
                   /\ Get(meta, "intensity", 0) > 7
                THEN 15 ELSE 0
        trig == IF /\ "trigger" \in DOMAIN meta
                   /\ meta["trigger"] \in {"mentioned_text", "random_chitchat"}
                THEN 5 ELSE 0
    IN  Min(100, base + len1 + len2 + kws + emo + trig)

\* _is_duplicate_ltm
_is_duplicate_ltm(ltm_list, new_entry) ==
    \E i \in 1..Len(ltm_list) :
        \/ ltm_list[i].text = new_entry.text
        \/ new_entry.text.len > 10 /\ new_entry.text.head = ltm_list[i].text.head

\* the loop of extract_ltm_from_stm over the turns from i on
RECURSIVE ExtractLoop(_, _, _, _)
ExtractLoop(stm, i, ltm, extracted) ==
    IF i > Len(stm) THEN [ltm |-> ltm, extracted |-> extracted]
    ELSE LET msg == stm[i]
             importance == _calculate_message_importance(msg.text, msg.meta)
             ltm_entry == [type |-> "event", text |-> Cut200(msg.text), ts |-> msg.ts,
                           importance |-> importance, meta |-> msg.meta]
         IN  IF /\ msg.role = "user"
                /\ importance >= 70
                /\ ~_is_duplicate_ltm(ltm, ltm_entry)
             THEN ExtractLoop(stm, i + 1, Append(ltm, ltm_entry), Append(extracted, ltm_entry))
             ELSE ExtractLoop(stm, i + 1, ltm, extracted)

\* the sort key (importance, ts) of an entry is below that of another
KeyLess(x, y) ==
    \/ x.importance < y.importance
    \/ x.importance = y.importance /\ x.ts < y.ts

\* the list left in the order the entries were added
Unsorted(l) == l

\* list.sort(key=(importance, ts), reverse=True): largest key first, entries
\* of equal key in the order they had
SortDesc(l) ==
    LET ahead(i) == { j \in 1..Len(l) :
                        \/ KeyLess(l[i], l[j])
                        \/ j < i /\ ~KeyLess(l[j], l[i]) }
        rank == [i \in 1..Len(l) |-> Cardinality(ahead(i))]
    IN  [r \in 1..Len(l) |-> l[CHOOSE i \in 1..Len(l) : rank[i] = r - 1]]

\* extract_ltm_from_stm between get_user_state and save_user_state: the state
\* afterwards and the entries extracted
ExtractLtm(state) ==
    IF Len(state.short_term_memory) < min_stm_for_ltm
    THEN [state |-> state, extracted |-> <<>>]
    ELSE LET r == ExtractLoop(state.short_term_memory, 1, state.long_term_memory, <<>>)
             kept == IF Len(r.ltm) > max_ltm THEN SubSeq(SortDesc(r.ltm), 1, max_ltm)
                     ELSE r.ltm
         IN  [state |-> [state EXCEPT !.long_term_memory = kept], extracted |-> r.extracted]

\* should_update_personality at time t, on the state get_user_state returned
should_update_personality(state, t) ==
    /\ ~(state.counters.new_msgs_since_last_summary < personality_update_min_msgs)
    /\ ~(t - state.counters.last_summary_ts < personality_update_cooldown)

\* what llm_client.ask gives analyze_personality_with_llm: an exception, a text
\* that is no JSON (DeepSeekText answers a failed call with such a text), or a
\* JSON value; a value of an object is a number (in 1/Unit) or a string
JsonNumber(v) == [type |-> "number", v |-> v]
JsonString == [type |-> "string", v |-> 0]
ClassifierRaises == [kind |-> "raises", json |-> "none", object |-> EmptyDict]
ClassifierText == [kind |-> "text", json |-> "none", object |-> EmptyDict]
ClassifierArray == [kind |-> "json", json |-> "array", object |-> EmptyDict]
ClassifierObject(object) == [kind |-> "json", json |-> "object", object |-> object]

FactorNames == {"talkative", "optimism", "stability", "politeness"}

\* max(0.0, min(1.0, float(data.get(name, 0.5))))
FactorOf(data, name) == Max(0, Min(Unit, Get(data, name, JsonNumber(Unit \div 2)).v))

\* build_personality_analysis_prompt: "" when no turn is the user's
build_personality_analysis_prompt(stm) ==
    IF \E i \in 1..Len(stm) : stm[i].role = "user" THEN "prompt" ELSE ""

\* the None that analyze_personality_with_llm returns
NoFactors == [factors |-> "none"]

\* an analysis that answers every response with factors
analyze_personality_always(response) ==
    IF response.kind # "json" \/ response.json # "object" THEN DefaultPersonality
    ELSE PersonalityFactors(FactorOf(response.object, "talkative"),
                            FactorOf(response.object, "optimism"),
                            FactorOf(response.object, "stability"),
                            FactorOf(response.object, "politeness"))

\* analyze_personality_with_llm once llm_client.ask has given its response:
\* json.loads raises on a text that is no JSON, data.get on a value that is
\* no object, float on a string that is no number; every exception is caught
\* and gives None
analyze_personality_with_llm(response) ==
    IF response.kind # "json" \/ response.json # "object" THEN NoFactors
    ELSE IF \E k \in FactorNames \cap DOMAIN response.object :
                response.object[k].type # "number"
         THEN NoFactors
         ELSE PersonalityFactors(FactorOf(response.object, "talkative"),
                                 FactorOf(response.object, "optimism"),
                                 FactorOf(response.object, "stability"),
                                 FactorOf(response.object, "politeness"))

(* ------------------------- memory/emotion.py -------------------------- *)
\* EMOTION_TO_VAD_DELTA, in tenths
EMOTION_TO_VAD_DELTA(label) ==
    CASE label = "happy" -> <<3, 2, 1>>
      [] label = "sad" -> <<0 - 2, 0 - 1, 0 - 1>>
      [] label = "angry" -> <<0 - 2, 3, 2>>
      [] label = "fear" -> <<0 - 3, 2, 0 - 2>>
      [] label = "disgust" -> <<0 - 2, 1, 1>>
      [] label = "surprise" -> <<1, 3, 0>>
      [] label = "calm" -> <<1, 0 - 2, 1>>
      [] OTHER -> <<0, 0, 0>>

\* an update that adds the unscaled offset to the previous value and does
\* not clamp
update_bot_vad_unbounded(prev_vad, user_emotion, relation, decay_alpha) ==
    LET delta == EMOTION_TO_VAD_DELTA(user_emotion.label)
    IN  [prev_vad EXCEPT !.V = @ + (delta[1] * user_emotion.intensity * Unit) \div 100,
                         !.A = @ + (delta[2] * user_emotion.intensity * Unit) \div 100,
                         !.D = @ + (delta[3] * user_emotion.intensity * Unit) \div 100]

\* update_bot_vad; user_emotion.intensity in tenths, relation {} or a
\* RelationState, decay_alpha in tenths; results rounded down to 1/Unit
update_bot_vad(prev_vad, user_emotion, relation, decay_alpha) ==
    LET delta == EMOTION_TO_VAD_DELTA(user_emotion.label)
        \* delta * (intensity * 0.3), in 1/Unit
        dv0 == (delta[1] * user_emotion.intensity * 3 * Unit) \div 1000
        da0 == (delta[2] * user_emotion.intensity * 3 * Unit) \div 1000
        dd0 == (delta[3] * user_emotion.intensity * 3 * Unit) \div 1000
        has == DOMAIN relation # {}
        dv == IF has THEN (dv0 * (10 * Unit - 3 * relation.familiarity)) \div (10 * Unit)
              ELSE dv0
        da == IF has THEN (da0 * (10 * Unit - 3 * relation.familiarity)) \div (10 * Unit)
              ELSE da0
        dd == IF has THEN dd0 + relation.trust \div 20 ELSE dd0
        new_v == (decay_alpha * prev_vad.V + (10 - decay_alpha) * (prev_vad.V0 + dv)) \div 10
        new_a == (decay_alpha * prev_vad.A + (10 - decay_alpha) * (prev_vad.A0 + da)) \div 10
        new_d == (decay_alpha * prev_vad.D + (10 - decay_alpha) * (prev_vad.D0 + dd)) \div 10
    IN  clamp([prev_vad EXCEPT !.V = new_v, !.A = new_a, !.D = new_d])

\* UserEmotion; intensity and confidence in hundredths
UserEmotion(label, intensity, confidence) ==
    [label |-> label, intensity |-> intensity, confidence |-> confidence]

\* a text as the recogniser sees it: whether it is empty or blank, its length,
\* the entries of EMOTION_KEYWORDS it contains (in the order of the
\* dictionary), and the sum of PUNCTUATION_BOOST over its punctuation
EmotionText(blank, len, hits, punct) ==
    [blank |-> blank, len |-> len, hits |-> hits, punct |-> punct]

Hit(label, intensity) == [label |-> label, intensity |-> intensity]

\* emotion_scores[label]
ScoreOf(hits, label) ==
    LET RECURSIVE Sum(_)
        Sum(i) == IF i = 0 THEN 0
                  ELSE Sum(i - 1) + IF hits[i].label = label THEN hits[i].intensity ELSE 0
    IN  Sum(Len(hits))

\* max(emotion_scores, key=...): the label of the highest score, the one
\* entered first among equals
BestLabel(hits) ==
    LET first(l) == CHOOSE i \in 1..Len(hits) :
                        hits[i].label = l /\ \A j \in 1..(i - 1) : hits[j].label # l
        labels == { hits[i].label : i \in 1..Len(hits) }
    IN  CHOOSE l \in labels :
            \A k \in labels :
                \/ ScoreOf(hits, l) > ScoreOf(hits, k)
                \/ ScoreOf(hits, l) = ScoreOf(hits, k) /\ first(l) <= first(k)

\* a recogniser that neither caps the summed score nor bounds the intensity
recognize_unclamped(text) ==
    IF text.blank THEN UserEmotion("neutral", 30, 90)
    ELSE IF text.hits = <<>> THEN UserEmotion("neutral", 30, 50)
    ELSE LET best == BestLabel(text.hits)
         IN  UserEmotion(best, ScoreOf(text.hits, best) + text.punct,
                         Min(90, 40 + 15 * Len(text.hits)))

\* EmotionRecognizer.recognize
recognize(text) ==
    IF text.blank THEN UserEmotion("neutral", 30, 90)
    ELSE IF text.hits = <<>> THEN UserEmotion("neutral", 30, 50)
    ELSE LET best == BestLabel(text.hits)
             base == Min(100, ScoreOf(text.hits, best))
         IN  UserEmotion(best, Max(10, Min(100, base + text.punct)),
                         Min(90, 40 + 15 * Len(text.hits)))

\* the eight labels of the classifier's prompt
valid_labels == {"neutral", "happy", "sad", "angry", "fear", "disgust", "surprise", "calm"}

\* what the request of SiliconFlowEmotionClient.recognize_emotion comes to: a
\* timeout, another failure of the request, a content that is no JSON, or a
\* JSON object with a label and an intensity (in hundredths)
RemoteTimeout == [kind |-> "timeout", label |-> "none", intensity |-> 0]
RemoteError == [kind |-> "error", label |-> "none", intensity |-> 0]
RemoteUnparsable == [kind |-> "unparsable", label |-> "none", intensity |-> 0]
RemoteAnswer(label, intensity) == [kind |-> "answer", label |-> label, intensity |-> intensity]

\* SiliconFlowEmotionClient.recognize_emotion, with _parse_emotion_response:
\* every failure is answered with a neutral emotion, nothing is raised
recognize_emotion(text, has_key, outcome) ==
    IF text.blank THEN UserEmotion("neutral", 30, 90)
    ELSE IF ~has_key THEN UserEmotion("neutral", 50, 50)
    ELSE CASE outcome.kind \in {"timeout", "error"} -> UserEmotion("neutral", 50, 30)
           [] outcome.kind = "unparsable" -> UserEmotion("neutral", 50, 40)
           [] OTHER -> UserEmotion(IF outcome.label \in valid_labels THEN outcome.label
                                   ELSE "neutral",
                                   Max(0, Min(100, outcome.intensity)), 80)

\* EmotionRecognizer.recognize_async; use_llm: a client is set and enabled
recognize_async(text, use_llm, has_key, outcome) ==
    IF text.blank THEN UserEmotion("neutral", 30, 90)
    ELSE IF text.len < 10 THEN recognize(text)
    ELSE LET rule_result == recognize(text)
             remote == recognize_emotion(text, has_key, outcome)
         IN  IF rule_result.confidence >= 70 /\ rule_result.label # "neutral"
             THEN rule_result
             ELSE IF use_llm
             THEN UserEmotion(remote.label, remote.intensity, remote.confidence)
             ELSE rule_result

\* the texts recognised: a blank one, a short one, and long ones with no
\* keyword, with one ("难过"), with two of one label ("开心", "哈哈"), with two
\* of equal score ("喜欢", "讨厌"), and with one and two exclamation marks
EmotionTexts ==
    { EmotionText(TRUE, 2, <<>>, 0),
      EmotionText(FALSE, 4, <<Hit("happy", 70)>>, 0),
      EmotionText(FALSE, 12, <<>>, 0),
      EmotionText(FALSE, 12, <<Hit("sad", 70)>>, 0),
      EmotionText(FALSE, 12, <<Hit("happy", 70), Hit("happy", 60)>>, 0),
      EmotionText(FALSE, 12, <<Hit("happy", 60), Hit("disgust", 60)>>, 0),
      EmotionText(FALSE, 12, <<Hit("angry", 90)>>, 20) }

\* entries of EMOTION_KEYWORDS, in the order of the dictionary: "开心", "哈哈",
\* "爱你", "难过", "讨厌" (entered among the angry keywords, its value replaced
\* by the later entry of the same key), "去死", "没事"
EMOTION_KEYWORDS ==
    << Hit("happy", 70), Hit("happy", 60), Hit("happy", 80), Hit("sad", 70),
       Hit("disgust", 60), Hit("angry", 90), Hit("calm", 50) >>

\* the entries of EMOTION_KEYWORDS at the positions S, in their order
HitsAt(S) ==
    LET RECURSIVE Upto(_)
        Upto(i) == IF i = 0 THEN <<>>
                   ELSE IF i \in S THEN Append(Upto(i - 1), EMOTION_KEYWORDS[i])
                   ELSE Upto(i - 1)
    IN  Upto(Len(EMOTION_KEYWORDS))

\* sums of PUNCTUATION_BOOST over a text's punctuation, in hundredths: twelve
\* or one "。", none, one "?", one "!", six "!"
PunctSums == {0 - 60, 0 - 5, 0, 5, 10, 60}

\* the texts given to recognize: the empty one, a whitespace-only one, and
\* texts holding any of the keywords above with any of the punctuation sums
RecognizeTexts ==
    { EmotionText(TRUE, 0, <<>>, 0), EmotionText(TRUE, 2, <<>>, 0) }
    \cup { EmotionText(FALSE, 12, HitsAt(S), p) :
              S \in SUBSET (1..Len(EMOTION_KEYWORDS)), p \in PunctSums }

\* what the classifier's request can come to
RemoteOutcomes ==
    { RemoteTimeout, RemoteError, RemoteUnparsable,
      RemoteAnswer("sad", 60), RemoteAnswer("bored", 150) }

(* --------------- memory/manager.py: the operations, step by step ------ *)
\* handle_message builds one MemoryManager per connection; the managers of
\* one process share the data directory
Managers == {1, 2}
TaskIds == 1..MaxTasks
\* str(ctx.user_id)
UserId == "10"

\* the operations that go through get_user_state and save_user_state
StateOps == {"append_to_stm", "set_nickname", "add_self_description", "clear_stm",
             "extract_ltm_from_stm", "update_personality"}
\* the operations that go through get_relation and save_relation
RelationOps == {"update_relation_on_interaction", "update_relation_on_negative_emotion"}
EmotionOps == {"update_bot_emotion"}
\* the operation that waits for the classifier between its reads and writes
PersonalityOps == {"maybe_update_personality"}

\* the arguments the callers pass
ArgsOf(op) ==
    CASE op = "append_to_stm" -> {"plain", "key"}
      [] op = "set_nickname" -> {"nick"}
      [] op = "add_self_description" -> {"desc"}
      [] op = "update_bot_emotion" -> {"happy", "angry"}
      [] OTHER -> {"none"}

\* the texts of the turns: a short one, one that names four important
\* keywords, and a long one that names three
TextFor(arg) ==
    CASE arg = "key" -> TextOf("key", 12, 4)
      [] arg = "long" -> TextOf("long", 120, 3)
      [] OTHER -> TextOf("plain", 2, 0)

\* the meta the handlers attach to a user turn
TurnMeta == [trigger |-> "mentioned_text", emotion |-> "neutral"]

\* the factors a personality analysis returned
NewFactors == PersonalityFactors((8 * Unit) \div 10, (6 * Unit) \div 10,
                                 (4 * Unit) \div 10, (7 * Unit) \div 10)

\* the intensity of a strong negative emotion, in tenths
StrongIntensity == 8

\* the intensity update_relation_on_negative_emotion is called with, in
\* tenths: 0.6, 1.0, or that of a strong negative emotion
IntensityOf(arg) ==
    CASE arg = "mild" -> 6
      [] arg = "full" -> 10
      [] OTHER -> StrongIntensity

\* the user emotions recognised
EmotionFor(arg) ==
    IF arg = "happy" THEN [label |-> "happy", intensity |-> StrongIntensity]
    ELSE [label |-> "angry", intensity |-> 5]

IdleTask == [op |-> "none", m |-> 0, pc |-> "idle", obj |-> 0, robj |-> 0,
             data |-> EmptyDict, arg |-> "none", prev |-> DefaultBotEmotion]

\* a user who has talked to the bot before: n turns, nothing else
RECURSIVE OldTurns(_)
OldTurns(n) ==
    IF n = 0 THEN UserMemoryState(UserId)
    ELSE AppendToStm(OldTurns(n - 1), STMMessage("user", TextFor("plain"), n, TurnMeta))

OldRecord == UserMemoryState_to_dict(OldTurns(stm_max_turns - 1))

\* data["relation"] = relation.to_dict()
WithRelation(data, relation) ==
    [k \in DOMAIN data \cup {"relation"} |->
        IF k = "relation" THEN RelationState_to_dict(relation) ELSE data[k]]

\* the files a process can find at start: none, the record of such a user, and
\* that record with a relation merged into it
InitialFiles ==
    { FileAbsent,
      FileJson(OldRecord),
      FileJson(WithRelation(OldRecord, InteractRelation(RelationState(UserId), 1))) }

\* get_user_state after storage.load_user returned data
StateOfData(data) ==
    IF "user_id" \in DOMAIN data THEN UserMemoryState_from_dict(data)
    ELSE UserMemoryState(UserId)

\* get_relation after storage.load_user returned data
RelationOfData(data) ==
    IF "relation" \in DOMAIN data THEN RelationState_from_dict(data["relation"])
    ELSE RelationState(UserId)

\* the managers after construction, with the file f on disk
MInitWith(f) ==
    /\ disk = f
    /\ heap = <<>>
    /\ rheap = <<>>
    /\ _user_cache = [m \in Managers |-> 0]
    /\ _relation_cache = [m \in Managers |-> 0]
    /\ _bot_emotion = [m \in Managers |-> DefaultBotEmotion]
    /\ tasks = [t \in TaskIds |-> IdleTask]
    /\ nOps = 0
    /\ mhist = [kind |-> "none", op |-> "none", overlapped |-> FALSE, failed |-> FALSE,
                failures |-> 0, managers |-> {},
                expect |-> StateOfData(_sync_read_json(f)).short_term_memory,
                appended |-> {}, cleared |-> FALSE, saved |-> _sync_read_json(f),
                updates |-> <<>>, merged |-> <<>>,
                producers |-> [i \in 1..Len(StateOfData(_sync_read_json(f)).short_term_memory)
                                 |-> 0],
                arrivals |-> <<>>,
                gate |-> "none", gated |-> [open |-> FALSE, asked |-> FALSE, stm_len |-> 0],
                response |-> [kind |-> "none"], pm |-> 0, replies |-> 0,
                trust |-> [op |-> "none", intensity |-> 0, before |-> 0, after |-> 0],
                provider |-> [name |-> "none", input |-> <<>>, failed |-> FALSE,
                              returned |-> [kind |-> "none", text |-> "", detail |-> ""],
                              sent |-> [kind |-> "none", text |-> "", detail |-> ""]],
                recognized |-> [text |-> EmotionText(TRUE, 0, <<>>, 0), use_llm |-> FALSE,
                                has_key |-> FALSE, outcome |-> RemoteError,
                                result |-> UserEmotion("neutral", 30, 90)],
                extract |-> [called |-> FALSE, stm |-> <<>>, before |-> <<>>, after |-> <<>>,
                             extracted |-> <<>>],
                prev_extract |-> [called |-> FALSE, stm |-> <<>>, before |-> <<>>,
                                  after |-> <<>>, extracted |-> <<>>],
                vad |-> [label |-> "none", related |-> FALSE, before |-> DefaultBotEmotion],
                rule |-> [text |-> EmotionText(TRUE, 0, <<>>, 0),
                          result |-> UserEmotion("neutral", 30, 90)],
                before |-> UserMemoryState(UserId), pupdates |-> <<>>]

\* the managers while no memory operation runs
MQuiet == MInitWith(FileAbsent)

\* what an operation does to the state object it got from get_user_state
Mutate(op, arg, state, t) ==
    CASE op = "append_to_stm" ->
            AppendToStm(state, STMMessage("user", TextFor(arg), t, TurnMeta))
      [] op = "set_nickname" -> [state EXCEPT !.profile.nickname = arg]
      [] op = "add_self_description" -> AddSelfDescription(state, arg)
      [] op = "clear_stm" -> [state EXCEPT !.short_term_memory = <<>>]
      [] op = "extract_ltm_from_stm" -> ExtractLtm(state).state
      [] op = "update_personality" -> [state EXCEPT !.personality = NewFactors]

\* mark_personality_updated, on the object the cache holds
MarkUpdated(state, t) ==
    [state EXCEPT !.counters.new_msgs_since_last_summary = 0,
                  !.counters.last_summary_ts = t]

\* every operation but the extraction goes on to save_user_state
SavesUnlessExtract(op, state) == op # "extract_ltm_from_stm"

\* whether the operation goes on to save_user_state
Saves(op, state) ==
    op # "extract_ltm_from_stm" \/ ExtractLtm(state).extracted # <<>>

\* save_user_state: the dictionary handed to storage.save_user
save_user_state(state) == UserMemoryState_to_dict(state)

\* the history after the operation has changed the state: the turns appended
\* so far, and the long-term memory of an extraction before it is cut
Remember(h, op, arg, t, state) ==
    CASE op = "append_to_stm" ->
            [h EXCEPT !.expect = Append(@, STMMessage("user", TextFor(arg), t, TurnMeta)),
                      !.appended = @ \cup {STMMessage("user", TextFor(arg), t, TurnMeta)}]
      [] op = "clear_stm" -> [h EXCEPT !.expect = <<>>, !.cleared = TRUE]
      [] op = "extract_ltm_from_stm" ->
            [h EXCEPT !.merged =
                IF Len(state.short_term_memory) < min_stm_for_ltm
                THEN state.long_term_memory
                ELSE ExtractLoop(state.short_term_memory, 1,
                                 state.long_term_memory, <<>>).ltm,
                      !.prev_extract = h.extract,
                      !.extract = [called |-> TRUE, stm |-> state.short_term_memory,
                                   before |-> state.long_term_memory,
                                   after |-> ExtractLtm(state).state.long_term_memory,
                                   extracted |-> ExtractLtm(state).extracted]]
      [] OTHER -> h

\* a state operation from the return of get_user_state (the object obj) to its
\* next suspension: the mutation, and save_user_state up to storage.save_user
\* with the dictionary of the object the cache holds
RunStateOp(t, m, op, arg, obj, cache, hp, h) ==
    LET hp1 == [hp EXCEPT ![obj] = Mutate(op, arg, hp[obj], now)]
        hp2 == IF op = "update_personality"
               THEN [hp1 EXCEPT ![cache[m]] = MarkUpdated(@, now)]
               ELSE hp1
    IN  /\ heap' = hp2
        /\ _user_cache' = cache
        /\ tasks' = [tasks EXCEPT ![t] =
                        IF Saves(op, hp[obj])
                        THEN [IdleTask EXCEPT !.op = op, !.m = m, !.arg = arg, !.pc = "write",
                                !.obj = cache[m],
                                !.data = save_user_state(hp2[cache[m]])]
                        ELSE IdleTask]
        /\ mhist' = Remember(h, op, arg, now, hp[obj])

\* maybe_update_personality from the return of get_user_state (the object
\* obj) in should_update_personality to llm_client.ask, where it waits for the
\* classifier; it returns False when the gate is closed, and when
\* analyze_personality_with_llm finds the short-term memory too short
RunGate(t, m, op, arg, obj, cache, hp, h) ==
    LET state == hp[obj]
        stm == hp[cache[m]].short_term_memory
        gate == IF ~should_update_personality(state, now) THEN "closed"
                ELSE IF Len(stm) < min_stm_for_personality
                        \/ build_personality_analysis_prompt(stm) = ""
                     THEN "short"
                     ELSE "open"
    IN  /\ heap' = hp
        /\ _user_cache' = cache
        /\ tasks' = [tasks EXCEPT ![t] =
                        IF gate = "open"
                        THEN [IdleTask EXCEPT !.op = op, !.m = m, !.arg = arg,
                                              !.pc = "classify"]
                        ELSE IdleTask]
        /\ mhist' = [h EXCEPT !.gate = gate,
                              !.gated = [open |-> should_update_personality(state, now),
                                         asked |-> gate = "open",
                                         stm_len |-> Len(stm)]]

\* a relation operation from the return of get_relation (the object robj) to
\* its next suspension: the mutation, and save_relation up to storage.load_user
RunRelationOp(t, m, op, arg, robj, rcache, rhp, h) ==
    LET after == IF op = "update_relation_on_interaction" THEN InteractRelation(rhp[robj], now)
                 ELSE NegativeRelation(rhp[robj], IntensityOf(arg))
        saves == op = "update_relation_on_interaction" \/ IntensityOf(arg) > 6
    IN  /\ rheap' = [rhp EXCEPT ![robj] = after]
        /\ _relation_cache' = rcache
        /\ _bot_emotion' = _bot_emotion
        /\ tasks' = [tasks EXCEPT ![t] =
                        IF saves
                        THEN [IdleTask EXCEPT !.op = op, !.m = m, !.arg = arg,
                                !.pc = "load_merge", !.robj = rcache[m]]
                        ELSE IdleTask]
        /\ mhist' = [h EXCEPT !.trust = [op |-> op, intensity |-> IntensityOf(arg),
                                         before |-> rhp[robj].trust,
                                         after |-> after.trust]]

\* the value a call would blend from had it read self._bot_emotion on entry
prev_vad_on_entry(at_call, at_resume) == at_call

\* the value update_bot_emotion blends from: self._bot_emotion is read after
\* the await of get_relation, not when the call started
prev_vad(at_call, at_resume) == at_resume

\* update_bot_emotion from the return of get_relation to its end
RunEmotionOp(t, m, op, arg, robj, rcache, rhp, h) ==
    LET prev == prev_vad(IF tasks[t].pc = "idle" THEN _bot_emotion[m] ELSE tasks[t].prev,
                         _bot_emotion[m])
        new_state == update_bot_vad(prev, EmotionFor(arg), rhp[robj], emotion_decay_alpha)
    IN  /\ rheap' = rhp
        /\ _relation_cache' = rcache
        /\ _bot_emotion' = [_bot_emotion EXCEPT ![m] = new_state]
        /\ tasks' = [tasks EXCEPT ![t] = IdleTask]
        /\ mhist' = [h EXCEPT !.updates =
                        Append(@, [m |-> m, prev |-> prev, before |-> _bot_emotion[m],
                                   new |-> new_state])]

\* no memory operation is in progress
AllIdle == \A t \in TaskIds : tasks[t].pc = "idle"

\* a memory operation is called: it runs to its first suspension
StartOp(t, m, op, arg) ==
    /\ tasks[t].pc = "idle"
    /\ \A u \in TaskIds : u < t => tasks[u].pc # "idle"
    /\ nOps < MaxOps
    /\ nOps' = nOps + 1
    /\ now' = now + 1
    /\ LET h == [mhist EXCEPT !.kind = "start", !.op = op,
                              !.overlapped = @ \/ \E u \in TaskIds : tasks[u].pc # "idle",
                              !.managers = @ \cup {m}]
       IN  IF op \in StateOps \cup PersonalityOps
           THEN /\ IF _user_cache[m] # 0
                   THEN IF op \in StateOps
                        THEN RunStateOp(t, m, op, arg, _user_cache[m], _user_cache, heap, h)
                        ELSE RunGate(t, m, op, arg, _user_cache[m], _user_cache, heap, h)
                   ELSE /\ tasks' = [tasks EXCEPT ![t] =
                                [IdleTask EXCEPT !.op = op, !.m = m, !.arg = arg,
                                                 !.pc = "load_state"]]
                        /\ mhist' = h
                        /\ UNCHANGED <<heap, _user_cache>>
                /\ UNCHANGED <<rheap, _relation_cache, _bot_emotion>>
           ELSE /\ IF _relation_cache[m] # 0
                   THEN IF op \in RelationOps
                        THEN RunRelationOp(t, m, op, arg, _relation_cache[m],
                                           _relation_cache, rheap, h)
                        ELSE RunEmotionOp(t, m, op, arg, _relation_cache[m],
                                          _relation_cache, rheap, h)
                   ELSE /\ tasks' = [tasks EXCEPT ![t] =
                                [IdleTask EXCEPT !.op = op, !.m = m, !.arg = arg,
                                                 !.pc = "load_relation",
                                                 !.prev = _bot_emotion[m]]]
                        /\ mhist' = h
                        /\ UNCHANGED <<rheap, _relation_cache, _bot_emotion>>
                /\ UNCHANGED <<heap, _user_cache>>
    /\ UNCHANGED <<disk, dvars, bvars>>

\* storage.load_user returns: the executor has read the file, and the
\* coroutine runs to its next suspension
LoadDone(t) ==
    LET task == tasks[t]
        data == _sync_read_json(disk)
        h == [mhist EXCEPT !.kind = "load", !.op = task.op]
    IN  /\ task.pc \in {"load_state", "load_relation", "load_merge"}
        /\ now' = now + 1
        /\ CASE task.pc = "load_state" ->
                    LET hp == Append(heap, StateOfData(data))
                        cache == [_user_cache EXCEPT ![task.m] = Len(hp)]
                    IN  /\ IF task.op \in StateOps
                           THEN RunStateOp(t, task.m, task.op, task.arg, Len(hp), cache, hp, h)
                           ELSE RunGate(t, task.m, task.op, task.arg, Len(hp), cache, hp, h)
                        /\ UNCHANGED <<rheap, _relation_cache, _bot_emotion>>
             [] task.pc = "load_relation" ->
                    LET rhp == Append(rheap, RelationOfData(data))
                        rcache == [_relation_cache EXCEPT ![task.m] = Len(rhp)]
                    IN  /\ IF task.op \in RelationOps
                           THEN RunRelationOp(t, task.m, task.op, task.arg, Len(rhp),
                                              rcache, rhp, h)
                           ELSE RunEmotionOp(t, task.m, task.op, task.arg, Len(rhp),
                                             rcache, rhp, h)
                        /\ UNCHANGED <<heap, _user_cache>>
             [] task.pc = "load_merge" ->
                    /\ tasks' = [tasks EXCEPT ![t] =
                            [task EXCEPT !.pc = "write",
                                         !.data = WithRelation(data, rheap[task.robj])]]
                    /\ mhist' = h
                    /\ UNCHANGED <<heap, _user_cache, rheap, _relation_cache, _bot_emotion>>
        /\ UNCHANGED <<disk, nOps, dvars, bvars>>

\* llm_client.ask returns or raises, and maybe_update_personality runs on:
\* with factors, update_personality sets them on the state of the cache,
\* mark_personality_updated resets the counter and the time, and
\* save_user_state runs up to storage.save_user; without, it returns False
ClassifierReturns(t, response) ==
    LET task == tasks[t]
        c == _user_cache[task.m]
        factors == analyze_personality_with_llm(response)
        hp == [heap EXCEPT ![c] = MarkUpdated([@ EXCEPT !.personality = factors], now)]
        h == [mhist EXCEPT !.kind = "classified", !.op = task.op, !.response = response,
                           !.pm = task.m, !.before = heap[c]]
    IN  /\ task.pc = "classify"
        /\ now' = now + 1
        /\ IF factors # NoFactors
           THEN /\ heap' = hp
                /\ tasks' = [tasks EXCEPT ![t] =
                        [IdleTask EXCEPT !.op = "update_personality", !.m = task.m,
                                         !.pc = "write", !.obj = c,
                                         !.data = save_user_state(hp[c])]]
                /\ mhist' = [h EXCEPT !.pupdates =
                                Append(@, [at |-> now,
                                           open |-> should_update_personality(heap[c], now)])]
           ELSE /\ heap' = heap
                /\ tasks' = [tasks EXCEPT ![t] = IdleTask]
                /\ mhist' = h
        /\ UNCHANGED <<disk, rheap, _user_cache, _relation_cache, _bot_emotion, nOps,
                       dvars, bvars>>

\* _sync_write_json in the executor: json.dumps, then write_text opens the
\* file, which empties it.  The dictionary refers to the list long_term_memory
\* of the state object itself, so json.dumps sees what the list holds by then.
WriteOpen(t) ==
    LET task == tasks[t]
    IN  /\ task.pc = "write"
        /\ disk' = FileTruncated
        /\ \E ltm \in IF task.op \in StateOps
                      THEN {task.data["long_term_memory"], heap[task.obj].long_term_memory}
                      ELSE {<<>>} :
              tasks' = [tasks EXCEPT ![t] =
                  [task EXCEPT !.pc = "writing",
                               !.data = IF task.op \in StateOps
                                        THEN [task.data EXCEPT !["long_term_memory"] = ltm]
                                        ELSE task.data]]
        /\ mhist' = [mhist EXCEPT !.kind = "open", !.op = task.op]
        /\ UNCHANGED <<now, heap, rheap, _user_cache, _relation_cache, _bot_emotion, nOps,
                       dvars, bvars>>

\* write_text completes; storage.save_user returns True and the operation ends
WriteDone(t) ==
    LET task == tasks[t]
    IN  /\ task.pc = "writing"
        /\ disk' = FileJson(task.data)
        /\ tasks' = [tasks EXCEPT ![t] = IdleTask]
        /\ mhist' = [mhist EXCEPT !.kind = "written", !.op = task.op, !.saved = task.data]
        /\ UNCHANGED <<now, heap, rheap, _user_cache, _relation_cache, _bot_emotion, nOps,
                       dvars, bvars>>

\* the write raises (before the file is opened, or part-way through
\* write_text, which leaves what was written so far); _sync_write_json
\* returns False and the operation ends
WriteFail(t) ==
    LET task == tasks[t]
    IN  /\ task.pc \in {"write", "writing"}
        /\ mhist.failures < MaxFailures
        /\ tasks' = [tasks EXCEPT ![t] = IdleTask]
        /\ mhist' = [mhist EXCEPT !.kind = "failed", !.op = task.op, !.failed = TRUE,
                                  !.failures = @ + 1]
        /\ UNCHANGED <<now, disk, heap, rheap, _user_cache, _relation_cache, _bot_emotion, nOps,
                       dvars, bvars>>

\* a memory operation is called by a caller that awaits each call before
\* it makes the next
AwaitedOp(m, op, arg) == AllIdle /\ StartOp(1, m, op, arg)

MemoryOps == StateOps \cup RelationOps

\* the manager of the connection whose operations are followed
OneManager == {1}

MNext ==
    \/ \E t \in TaskIds, m \in OneManager, op \in MemoryOps :
          \E arg \in ArgsOf(op) : StartOp(t, m, op, arg)
    \/ \E t \in TaskIds : LoadDone(t)
    \/ \E t \in TaskIds : WriteOpen(t)
    \/ \E t \in TaskIds : WriteDone(t)
    \/ \E t \in TaskIds : WriteFail(t)

\* a long-term memory of n entries kept from earlier turns, in the order they
\* were extracted; their importances all 1.0, or 0.7 to 1.0 in turn
RECURSIVE OldLtm(_, _)
OldLtm(n, high) ==
    IF n = 0 THEN <<>>
    ELSE Append(OldLtm(n - 1, high),
                [type |-> "event", text |-> TextOf("old" \o ToString(n), 12, 4), ts |-> n,
                 importance |-> IF high THEN 100 ELSE 70 + 10 * (n % 4),
                 meta |-> TurnMeta])

\* the files of a user whose long-term memory is full or one short of it
LtmFiles ==
    { FileJson(UserMemoryState_to_dict(
          [OldTurns(stm_max_turns - 1) EXCEPT !.long_term_memory = OldLtm(n, high)])) :
        n \in {max_ltm - 1, max_ltm}, high \in BOOLEAN }

\* the operations of one manager, each awaited before the next is called
SNext ==
    \/ \E m \in OneManager, op \in MemoryOps :
          \E arg \in ArgsOf(op) : AwaitedOp(m, op, arg)
    \/ \E t \in TaskIds : LoadDone(t)
    \/ \E t \in TaskIds : WriteOpen(t)
    \/ \E t \in TaskIds : WriteDone(t)
    \/ \E t \in TaskIds : WriteFail(t)

\* the turns appended before an extraction
LtmArgs(op) == IF op = "append_to_stm" THEN {"key", "long"} ELSE {"none"}

LNext ==
    \/ \E m \in OneManager, op \in {"append_to_stm", "extract_ltm_from_stm"} :
          \E arg \in LtmArgs(op) : AwaitedOp(m, op, arg)
    \/ \E t \in TaskIds : LoadDone(t)
    \/ \E t \in TaskIds : WriteOpen(t)
    \/ \E t \in TaskIds : WriteDone(t)

\* what the classifier can answer: an exception, the text of a failed call,
\* a JSON array, and JSON objects with all four factors, with none, with one,
\* with one that is no number, and with one beyond 1.0
GoodObject == [k \in FactorNames |-> JsonNumber((8 * Unit) \div 10)]
ClassifierResponses ==
    { ClassifierRaises, ClassifierText, ClassifierArray,
      ClassifierObject(GoodObject),
      ClassifierObject(EmptyDict),
      ClassifierObject([k \in {"talkative"} |-> JsonNumber((9 * Unit) \div 10)]),
      ClassifierObject([GoodObject EXCEPT !["optimism"] = JsonString]),
      ClassifierObject([GoodObject EXCEPT !["politeness"] = JsonNumber(2 * Unit)]) }

\* the files of a user whose short-term memory is long enough for the
\* analysis, and of one whose is one turn short of it
PersonalityFiles ==
    { FileJson(UserMemoryState_to_dict(OldTurns(min_stm_for_personality))),
      FileJson(UserMemoryState_to_dict(OldTurns(min_stm_for_personality - 1))) }

\* the turns and the personality updates of one connection; the updates run
\* as tasks of their own (asyncio.create_task in run_mentioned_text)
PNext ==
    \/ \E t \in TaskIds, m \in OneManager, op \in {"append_to_stm"} \cup PersonalityOps :
          \E arg \in {"plain"} : StartOp(t, m, op, arg)
    \/ \E t \in TaskIds : LoadDone(t)
    \/ \E t \in TaskIds, response \in ClassifierResponses : ClassifierReturns(t, response)
    \/ \E t \in TaskIds : WriteOpen(t)
    \/ \E t \in TaskIds : WriteDone(t)

\* the trust a user's file can hold: 0.0, 0.05, the floor 0.1, 0.102, the
\* default 0.5 and 1.0
StoredTrusts == {0, Unit \div 20, Unit \div 10, (102 * Unit) \div 1000, Unit \div 2, Unit}

TrustFiles ==
    { FileJson(WithRelation(OldRecord, [RelationState(UserId) EXCEPT !.trust = trust])) :
        trust \in StoredTrusts }

\* negative emotions of one user, each call awaited before the next
TrustNext ==
    \/ \E m \in OneManager, arg \in {"mild", "strong", "full"} :
          AwaitedOp(m, "update_relation_on_negative_emotion", arg)
    \/ \E t \in TaskIds : LoadDone(t)
    \/ \E t \in TaskIds : WriteOpen(t)
    \/ \E t \in TaskIds : WriteDone(t)

\* what the handlers of two connections call for the same user
ConnectionOps == {"append_to_stm", "set_nickname"}

CNext ==
    \/ \E t \in TaskIds, m \in Managers, op \in ConnectionOps :
          \E arg \in ArgsOf(op) : StartOp(t, m, op, arg)
    \/ \E t \in TaskIds : LoadDone(t)
    \/ \E t \in TaskIds : WriteOpen(t)
    \/ \E t \in TaskIds : WriteDone(t)

ENext ==
    \/ \E t \in TaskIds, m \in Managers, op \in EmotionOps :
          \E arg \in ArgsOf(op) : StartOp(t, m, op, arg)
    \/ \E t \in TaskIds : LoadDone(t)

(* ------------- the handlers' memory calls, on one connection ---------- *)
\* the rules whose handlers record the user's turn and the reply
TurnRules == {"reply_callback", "mentioned_with_image", "mentioned_text", "random_chitchat"}

\* meta["trigger"] of the turns a rule records
TriggerOf(rule, has_image) ==
    IF rule = "reply_callback"
    THEN IF has_image THEN "reply_with_image" ELSE "reply_text"
    ELSE rule

\* the user's turn and the assistant's, as the handler of the rule appends them
UserTurn(rule, has_image, t) ==
    STMMessage("user",
               IF rule = "reply_callback" THEN TextOf("[reply] hi", 10, 0)
               ELSE TextOf("hi", 2, 0),
               t, [trigger |-> TriggerOf(rule, has_image), emotion |-> "neutral"])

AssistantTurn(rule, has_image, t) ==
    STMMessage("assistant", TextOf("reply", 5, 0), t,
               IF rule \in {"mentioned_text", "random_chitchat"}
               THEN [k \in {"emotion"} |-> "neutral"]
               ELSE [k \in {"trigger"} |-> TriggerOf(rule, has_image)])

\* the emotion recognised in the texts of the model
NeutralEmotion == [label |-> "neutral", intensity |-> 5]

\* the memory calls of a handler that records turns, each awaited in turn:
\* append_to_stm twice, update_relation_on_interaction, update_bot_emotion and,
\* in the text handler, extract_ltm_from_stm (maybe_update_personality, which
\* leaves the turns alone, is followed in the reply path below).  The relation,
\* when not cached, is read from the file append_to_stm has just written.
RecordTurns(rule, has_image, producer, h) ==
    LET cached == _user_cache[1] # 0
        state0 == IF cached THEN heap[_user_cache[1]]
                  ELSE StateOfData(_sync_read_json(disk))
        user == UserTurn(rule, has_image, now)
        assistant == AssistantTurn(rule, has_image, now)
        s2 == AppendToStm(AppendToStm(state0, user), assistant)
        rcached == _relation_cache[1] # 0
        rel0 == IF rcached THEN rheap[_relation_cache[1]]
                ELSE RelationOfData(save_user_state(s2))
        rel1 == InteractRelation(rel0, now)
        ex == IF rule = "mentioned_text" THEN ExtractLtm(s2)
              ELSE [state |-> s2, extracted |-> <<>>]
    IN  /\ heap' = IF cached THEN [heap EXCEPT ![_user_cache[1]] = ex.state]
                   ELSE Append(heap, ex.state)
        /\ _user_cache' = IF cached THEN _user_cache
                          ELSE [_user_cache EXCEPT ![1] = Len(heap) + 1]
        /\ rheap' = IF rcached THEN [rheap EXCEPT ![_relation_cache[1]] = rel1]
                    ELSE Append(rheap, rel1)
        /\ _relation_cache' = IF rcached THEN _relation_cache
                              ELSE [_relation_cache EXCEPT ![1] = Len(rheap) + 1]
        /\ _bot_emotion' = [_bot_emotion EXCEPT ![1] =
                               update_bot_vad(@, NeutralEmotion, rel1, emotion_decay_alpha)]
        /\ disk' = IF ex.extracted # <<>> THEN FileJson(save_user_state(ex.state))
                   ELSE FileJson(WithRelation(save_user_state(s2), rel1))
        /\ mhist' = [h EXCEPT !.kind = "turns", !.op = rule,
                                  !.expect = @ \o <<user, assistant>>,
                                  !.producers = @ \o <<producer, producer>>,
                                  !.saved = IF ex.extracted # <<>>
                                            THEN save_user_state(ex.state)
                                            ELSE WithRelation(save_user_state(s2), rel1)]

\* the memory commands that write: _set_nickname, _add_self_desc,
\* _clear_self_desc and _clear_memory of commands_custom.py
CommandWrites(rule, h) ==
    LET cached == _user_cache[1] # 0
        state0 == IF cached THEN heap[_user_cache[1]]
                  ELSE StateOfData(_sync_read_json(disk))
        state1 ==
            CASE rule = "set_nickname" -> Mutate("set_nickname", "x", state0, now)
              [] rule = "add_self_desc" -> AddSelfDescription(state0, "x")
              [] rule = "clear_self_desc" ->
                    [state0 EXCEPT !.profile.self_descriptions = <<>>]
              [] OTHER ->
                    [state0 EXCEPT !.short_term_memory = <<>>,
                                   !.profile.self_descriptions = <<>>]
    IN  /\ heap' = IF cached THEN [heap EXCEPT ![_user_cache[1]] = state1]
                   ELSE Append(heap, state1)
        /\ _user_cache' = IF cached THEN _user_cache
                          ELSE [_user_cache EXCEPT ![1] = Len(heap) + 1]
        /\ disk' = FileJson(save_user_state(state1))
        /\ mhist' = [h EXCEPT !.kind = "command", !.op = rule,
                                  !.expect = IF rule = "clear_memory" THEN <<>> ELSE @,
                                  !.producers = IF rule = "clear_memory" THEN <<>> ELSE @,
                                  !.cleared = @ \/ rule = "clear_memory",
                                  !.saved = save_user_state(state1)]
        /\ UNCHANGED <<rheap, _relation_cache, _bot_emotion>>

\* handle_message: one event is read and dispatched, and the handler that ran
\* has made its memory calls.  A turn is traced to the message that produced
\* it: the event itself, or, at a callback, the message that stored the entry.
HandleEventTurns(event) ==
    /\ connected
    /\ nEvents < MaxEvents
    /\ LET ctx == from_event(event)
           env == [t |-> now, memory |-> enable_memory, router |-> router_runs]
       IN  /\ ~(ctx.is_message_event /\ is_self_message(ctx))
           /\ \E inp \in InputsFor(ctx) :
              \E d \in { dispatch(build_commands, ctx, pending_requests, _user_calls,
                                  _group_calls, env, inp) } :
                LET ran == { d.ran[i] : i \in 1..Len(d.ran) }
                    wrote == IF d.mem THEN ran ELSE {}
                    arrived == [k \in DOMAIN d.pending |->
                                   IF k \in StoredBy(d.sent) THEN nEvents + 1
                                   ELSE mhist.arrivals[k]]
                    h == [mhist EXCEPT !.arrivals = arrived]
                IN  /\ Dispatched(event, ctx, d)
                    /\ IF wrote \cap TurnRules # {}
                       THEN \E rule \in wrote \cap TurnRules :
                               RecordTurns(rule,
                                      extract_image_url(event.data) # "none",
                                      IF rule = "reply_callback"
                                      THEN mhist.arrivals[event.echo]
                                      ELSE nEvents + 1,
                                      h)
                       ELSE IF wrote # {}
                       THEN \E rule \in wrote : CommandWrites(rule, h)
                       ELSE /\ mhist' = [h EXCEPT !.kind = "event", !.op = "none"]
                            /\ UNCHANGED <<disk, heap, rheap, _user_cache, _relation_cache,
                                           _bot_emotion>>
    /\ nEvents' = nEvents + 1
    /\ UNCHANGED <<now, router_runs, tasks, nOps>>
    /\ UNCHANGED bvars

\* one user's private conversation with the bot: the messages of every
\* shape, the quoting ones, the get_msg responses to them, and the bot's own
\* messages echoed back
TurnEvents ==
    { MessageEvent(u, None, 1, r) : u \in Users, r \in RawMsgs }
    \cup { MessageEvent(u, None, m, r) : u \in Users, m \in MsgIds, r \in ReplyMsgs }
    \cup { [BlankEvent EXCEPT !.status = "ok", !.echo = EchoId(m), !.data = d] :
             m \in MsgIds, d \in TargetMsgs }
    \cup SelfEvents

TNext ==
    \/ \E event \in TurnEvents : SkipSelfMessage(event)
    \/ \E event \in TurnEvents : HandleEventTurns(event)
    \/ Tick

(* ------------- the reply to a mentioned text, step by step ------------ *)
\* the coroutine that handles the event: TextHandler.handle, which
\* build_commands installs, or run_mentioned_text when the rules run the
\* router's functions; and the task run_mentioned_text creates
HandlerOps == {"TextHandler.handle", "run_mentioned_text"}

\* where a coroutine waits in the code after the chat model's answer has been
\* recorded: storage.save_user in extract_ltm_from_stm, llm_client.ask in
\* analyze_personality_with_llm, storage.save_user in mark_personality_updated
PostReplyWaits == {"extract_save", "personality_ask", "personality_save"}

\* maybe_update_personality on the state s at time t: where it first waits
PersonalityWait(s, t) ==
    IF /\ should_update_personality(s, t)
       /\ ~(Len(s.short_term_memory) < min_stm_for_personality)
       /\ build_personality_analysis_prompt(s.short_term_memory) # ""
    THEN "personality_ask"
    ELSE "done"

\* extract_ltm_from_stm, then maybe_update_personality: where they first wait
PostReplyWait(s, t) ==
    IF ExtractLtm(s).extracted # <<>> THEN "extract_save"
    ELSE PersonalityWait(ExtractLtm(s).state, t)

\* the coroutine t goes on to its next wait; with nothing left to wait for
\* the handler reaches await ctx.send_text(reply_text), and the task ends
Continue(t, wait, h) ==
    IF wait # "done"
    THEN /\ tasks' = [tasks EXCEPT ![t].pc = wait]
         /\ mhist' = h
    ELSE /\ tasks' = [tasks EXCEPT ![t] = IdleTask]
         /\ mhist' = IF tasks[t].op \in HandlerOps
                     THEN [h EXCEPT !.kind = "reply", !.replies = @ + 1]
                     ELSE h

\* a mentioned text arrives with memory enabled: the handler appends the
\* user's turn and waits for the chat model
MentionedText(arg) ==
    LET cached == _user_cache[1] # 0
        state0 == IF cached THEN heap[_user_cache[1]]
                  ELSE StateOfData(_sync_read_json(disk))
        s1 == AppendToStm(state0, STMMessage("user", TextFor(arg), now, TurnMeta))
    IN  /\ tasks[1].pc = "idle"
        /\ nOps < MaxOps
        /\ nOps' = nOps + 1
        /\ now' = now + 1
        /\ heap' = IF cached THEN [heap EXCEPT ![_user_cache[1]] = s1] ELSE Append(heap, s1)
        /\ _user_cache' = IF cached THEN _user_cache
                          ELSE [_user_cache EXCEPT ![1] = Len(heap) + 1]
        /\ disk' = FileJson(save_user_state(s1))
        /\ tasks' = [tasks EXCEPT ![1] =
                        [IdleTask EXCEPT !.op = IF router_runs THEN "run_mentioned_text"
                                                 ELSE "TextHandler.handle",
                                         !.m = 1, !.arg = arg, !.pc = "chat"]]
        /\ mhist' = [mhist EXCEPT !.kind = "mentioned", !.op = "mentioned_text"]
        /\ UNCHANGED <<rheap, _relation_cache, _bot_emotion, dvars, bvars>>

\* the chat model answers.  The handler appends the reply and updates the
\* relation and the bot's emotion.  run_mentioned_text then creates the task
\* _post_reply_tasks and goes on to send the reply; TextHandler.handle awaits
\* extract_ltm_from_stm and maybe_update_personality itself, before the send
ChatAnswered ==
    LET c == _user_cache[1]
        s2 == AppendToStm(heap[c], AssistantTurn("mentioned_text", FALSE, now))
        rcached == _relation_cache[1] # 0
        rel0 == IF rcached THEN rheap[_relation_cache[1]]
                ELSE RelationOfData(_sync_read_json(disk))
        rel1 == InteractRelation(rel0, now)
        h == [mhist EXCEPT !.kind = "answered", !.op = tasks[1].op]
    IN  /\ tasks[1].pc = "chat"
        /\ router_runs => tasks[2].pc = "idle"
        /\ now' = now + 1
        /\ rheap' = IF rcached THEN [rheap EXCEPT ![_relation_cache[1]] = rel1]
                    ELSE Append(rheap, rel1)
        /\ _relation_cache' = IF rcached THEN _relation_cache
                              ELSE [_relation_cache EXCEPT ![1] = Len(rheap) + 1]
        /\ _bot_emotion' = [_bot_emotion EXCEPT ![1] =
                               update_bot_vad(@, NeutralEmotion, rel1, emotion_decay_alpha)]
        /\ disk' = FileJson(WithRelation(save_user_state(s2), rel1))
        /\ IF router_runs
           THEN /\ heap' = [heap EXCEPT ![c] = s2]
                /\ tasks' = [tasks EXCEPT ![1] = IdleTask,
                                          ![2] = [IdleTask EXCEPT !.op = "_post_reply_tasks",
                                                                  !.m = 1, !.pc = "created"]]
                /\ mhist' = [h EXCEPT !.kind = "reply", !.replies = @ + 1]
           ELSE /\ heap' = [heap EXCEPT ![c] = ExtractLtm(s2).state]
                /\ Continue(1, PostReplyWait(s2, now), h)
        /\ UNCHANGED <<_user_cache, nOps, dvars, bvars>>

\* the task run_mentioned_text created starts: extract_ltm_from_stm, then
\* maybe_update_personality, up to the first wait
PostReplyStarts(t) ==
    LET c == _user_cache[tasks[t].m]
    IN  /\ tasks[t].pc = "created"
        /\ heap' = [heap EXCEPT ![c] = ExtractLtm(@).state]
        /\ Continue(t, PostReplyWait(heap[c], now),
                    [mhist EXCEPT !.kind = "post_reply", !.op = tasks[t].op])
        /\ UNCHANGED <<now, disk, rheap, _user_cache, _relation_cache, _bot_emotion, nOps,
                       dvars, bvars>>

\* storage.save_user returns in extract_ltm_from_stm; maybe_update_personality
\* is called
ExtractSaved(t) ==
    LET c == _user_cache[tasks[t].m]
    IN  /\ tasks[t].pc = "extract_save"
        /\ disk' = FileJson(WithRelation(save_user_state(heap[c]),
                                         RelationOfData(_sync_read_json(disk))))
        /\ Continue(t, PersonalityWait(heap[c], now),
                    [mhist EXCEPT !.kind = "extract_saved", !.op = tasks[t].op])
        /\ UNCHANGED <<now, heap, rheap, _user_cache, _relation_cache, _bot_emotion, nOps,
                       dvars, bvars>>

\* the classifier answers the personality analysis: with factors,
\* update_personality and mark_personality_updated run up to storage.save_user
PersonalityAnswered(t, response) ==
    LET c == _user_cache[tasks[t].m]
        factors == analyze_personality_with_llm(response)
        h == [mhist EXCEPT !.kind = "classified", !.op = tasks[t].op, !.response = response,
                           !.pm = tasks[t].m, !.before = heap[c]]
    IN  /\ tasks[t].pc = "personality_ask"
        /\ now' = now + 1
        /\ heap' = IF factors # NoFactors
                   THEN [heap EXCEPT ![c] = MarkUpdated([@ EXCEPT !.personality = factors], now)]
                   ELSE heap
        /\ Continue(t, IF factors # NoFactors THEN "personality_save" ELSE "done", h)
        /\ UNCHANGED <<disk, rheap, _user_cache, _relation_cache, _bot_emotion, nOps,
                       dvars, bvars>>

\* storage.save_user returns in mark_personality_updated
PersonalitySaved(t) ==
    LET c == _user_cache[tasks[t].m]
    IN  /\ tasks[t].pc = "personality_save"
        /\ disk' = FileJson(WithRelation(save_user_state(heap[c]),
                                         RelationOfData(_sync_read_json(disk))))
        /\ Continue(t, "done", [mhist EXCEPT !.kind = "personality_saved", !.op = tasks[t].op])
        /\ UNCHANGED <<now, heap, rheap, _user_cache, _relation_cache, _bot_emotion, nOps,
                       dvars, bvars>>

\* a handler calls memory.emotion_recognizer.recognize_async(question)
RecognizeAsync(text, use_llm, has_key, outcome) ==
    /\ nOps < MaxOps
    /\ nOps' = nOps + 1
    /\ mhist' = [mhist EXCEPT !.kind = "recognized", !.op = "recognize_async",
                              !.recognized =
                                 [text |-> text, use_llm |-> use_llm, has_key |-> has_key,
                                  outcome |-> outcome,
                                  result |-> recognize_async(text, use_llm, has_key, outcome)]]
    /\ UNCHANGED <<now, disk, heap, rheap, _user_cache, _relation_cache, _bot_emotion, tasks,
                   dvars, bvars>>

\* MemoryManager.recognize_emotion: the rule recogniser alone
RecognizeEmotion(text) ==
    /\ nOps < MaxOps
    /\ nOps' = nOps + 1
    /\ mhist' = [mhist EXCEPT !.kind = "rule_recognized", !.op = "recognize_emotion",
                              !.rule = [text |-> text, result |-> recognize(text)]]
    /\ UNCHANGED <<now, disk, heap, rheap, _user_cache, _relation_cache, _bot_emotion, tasks,
                   dvars, bvars>>

\* update_bot_vad is applied to the bot's emotion, with a user emotion of any
\* label (one unknown to EMOTION_TO_VAD_DELTA among them) and an intensity of
\* 0.0 or 1.0, with no relation or one at either end of its range, and with
\* an inertia of 0.0, 0.5 or 1.0
VadRelations ==
    { EmptyDict,
      [RelationState(UserId) EXCEPT !.familiarity = 0, !.trust = 0],
      [RelationState(UserId) EXCEPT !.familiarity = Unit, !.trust = Unit] }

VadUpdate(label, intensity, relation, decay_alpha) ==
    /\ nOps < MaxOps
    /\ nOps' = nOps + 1
    /\ _bot_emotion' = [_bot_emotion EXCEPT ![1] =
                           update_bot_vad(@, [label |-> label, intensity |-> intensity],
                                          relation, decay_alpha)]
    /\ mhist' = [mhist EXCEPT !.kind = "vad", !.op = "update_bot_vad",
                              !.vad = [label |-> label, related |-> relation # EmptyDict,
                                       before |-> _bot_emotion[1]]]
    /\ UNCHANGED <<now, disk, heap, rheap, _user_cache, _relation_cache, tasks, dvars, bvars>>

VadNext ==
    \E label \in valid_labels \cup {"bored"}, intensity \in {0, 10},
       relation \in VadRelations, decay_alpha \in {0, 5, 10} :
        VadUpdate(label, intensity, relation, decay_alpha)

RecognizeNext ==
    \E text \in EmotionTexts, use_llm \in BOOLEAN, has_key \in BOOLEAN,
       outcome \in RemoteOutcomes : RecognizeAsync(text, use_llm, has_key, outcome)

RulesNext == \E text \in RecognizeTexts : RecognizeEmotion(text)

RNext ==
    \/ \E arg \in {"plain", "key"} : MentionedText(arg)
    \/ ChatAnswered
    \/ \E t \in TaskIds : PostReplyStarts(t)
    \/ \E t \in TaskIds : ExtractSaved(t)
    \/ \E t \in TaskIds, response \in ClassifierResponses : PersonalityAnswered(t, response)
    \/ \E t \in TaskIds : PersonalitySaved(t)

(* --------------------------- ai/deepseek.py --------------------------- *)
CallIds == 1..MaxCalls

\* _is_circuit_open still open at the instant the cooldown ends
_is_circuit_open_inclusive(t, open_until) == t <= open_until

\* DeepSeekText._is_circuit_open
_is_circuit_open(t, open_until) == t < open_until

\* DeepSeekText._on_success: the failure count afterwards
_on_success(fail_count) == 0

\* a breaker whose count starts afresh once a cooldown has run out
_on_failure_after_reset(fail_count, open_until, t) ==
    LET count == IF fail_count >= fail_threshold /\ t >= open_until THEN 0 ELSE fail_count
    IN  [fail_count |-> count + 1,
         open_until |-> IF count + 1 >= fail_threshold THEN t + cooldown_seconds
                        ELSE open_until]

\* DeepSeekText._on_failure: the failure count and the end of the cooldown afterwards
_on_failure(fail_count, open_until, t) ==
    [fail_count |-> fail_count + 1,
     open_until |-> IF fail_count + 1 >= fail_threshold THEN t + cooldown_seconds
                    ELSE open_until]

\* attempts = max(1, self.retry_attempts + 1)
attempts == IF retry_attempts + 1 > 1 THEN retry_attempts + 1 ELSE 1

NewCall == [pc |-> "new", i |-> 0, counted |-> 0, result |-> "none"]
NoBStep == [kind |-> "none", call |-> 0, open |-> FALSE, invoked |-> FALSE,
            result |-> "none", tripped |-> FALSE]

\* the state of a client after construction, before any call
BQuiet ==
    /\ api_key = TRUE
    /\ _fail_count = 0
    /\ _circuit_open_until = 0
    /\ calls = [c \in CallIds |-> NewCall]
    /\ lastTrip = None
    /\ blast = NoBStep

\* the dispatcher's state while only the client is exercised
DQuiet ==
    /\ pending_requests = <<>>
    /\ _user_calls = <<>>
    /\ _group_calls = <<>>
    /\ router_runs = FALSE
    /\ nEvents = 0
    /\ connected = TRUE
    /\ last = NoStep
    /\ storedAt = <<>>
    /\ consumed = {}
    /\ nStored = [e \in EchoIds |-> 0]
    /\ nReplied = [e \in EchoIds |-> 0]

BInit ==
    /\ now = 1
    /\ api_key \in BOOLEAN
    /\ _fail_count = 0
    /\ _circuit_open_until = 0
    /\ calls = [c \in CallIds |-> NewCall]
    /\ lastTrip = None
    /\ blast = NoBStep
    /\ DQuiet
    /\ MQuiet

\* _chat up to its first await: the key check, the circuit check, and the first
\* request to the provider
StartCall(c) ==
    /\ calls[c].pc = "new"
    /\ IF ~api_key
       THEN /\ calls' = [calls EXCEPT ![c].pc = "done", ![c].result = "no_key"]
            /\ blast' = [NoBStep EXCEPT !.kind = "start", !.call = c, !.result = "no_key"]
       ELSE IF _is_circuit_open(now, _circuit_open_until)
       THEN /\ calls' = [calls EXCEPT ![c].pc = "done", ![c].result = "busy"]
            /\ blast' = [NoBStep EXCEPT !.kind = "start", !.call = c, !.open = TRUE,
                                        !.result = "busy"]
       ELSE /\ calls' = [calls EXCEPT ![c].pc = "await"]
            /\ blast' = [NoBStep EXCEPT !.kind = "start", !.call = c, !.invoked = TRUE]
    /\ UNCHANGED <<now, api_key, _fail_count, _circuit_open_until, lastTrip>>
    /\ UNCHANGED <<dvars, mvars>>

\* the provider answers attempt i: a response, or an exception (a timeout, a
\* network error, a malformed response)
Respond(c, ok) ==
    /\ calls[c].pc = "await"
    /\ IF ok
       THEN /\ _fail_count' = _on_success(_fail_count)
            /\ calls' = [calls EXCEPT ![c].pc = "done", ![c].result = "reply"]
            /\ blast' = [NoBStep EXCEPT !.kind = "success", !.call = c, !.result = "reply"]
            /\ UNCHANGED <<_circuit_open_until, lastTrip>>
       ELSE LET f == _on_failure(_fail_count, _circuit_open_until, now)
                final == calls[c].i = attempts - 1
            IN  /\ _fail_count' = f.fail_count
                /\ _circuit_open_until' = f.open_until
                /\ calls' = [calls EXCEPT ![c].pc = IF final THEN "done" ELSE "sleep",
                                          ![c].counted = @ + 1,
                                          ![c].result = IF final THEN "fallback" ELSE @]
                /\ lastTrip' = IF f.fail_count >= fail_threshold THEN now ELSE lastTrip
                /\ blast' = [NoBStep EXCEPT !.kind = "failure", !.call = c,
                                !.tripped = f.fail_count >= fail_threshold,
                                !.result = IF final THEN "fallback" ELSE "none"]
    /\ UNCHANGED <<now, api_key>>
    /\ UNCHANGED <<dvars, mvars>>

\* asyncio.sleep(retry_base_delay * 2**i) is over: the next attempt goes to the provider
Retry(c) ==
    /\ calls[c].pc = "sleep"
    /\ calls' = [calls EXCEPT ![c].pc = "await", ![c].i = @ + 1]
    /\ blast' = [NoBStep EXCEPT !.kind = "retry", !.call = c, !.invoked = TRUE,
                                !.open = _is_circuit_open(now, _circuit_open_until)]
    /\ UNCHANGED <<now, api_key, _fail_count, _circuit_open_until, lastTrip>>
    /\ UNCHANGED <<dvars, mvars>>

\* time passes while calls wait or sleep
BTick ==
    /\ now + TickStep <= MaxTime
    /\ now' = now + TickStep
    /\ blast' = [NoBStep EXCEPT !.kind = "tick"]
    /\ UNCHANGED <<api_key, _fail_count, _circuit_open_until, calls, lastTrip>>
    /\ UNCHANGED <<dvars, mvars>>

BNext ==
    \/ \E c \in CallIds : StartCall(c)
    \/ \E c \in CallIds, ok \in BOOLEAN : Respond(c, ok)
    \/ \E c \in CallIds : Retry(c)
    \/ BTick

(* ------------------- ai: what the providers return ------------------- *)
\* a returned string: a fixed text, and what is formatted into it (the text
\* of an exception, the provider's error message, a status code), "" if
\* nothing is
Returned(kind, text, detail) == [kind |-> kind, text |-> text, detail |-> detail]

\* DeepSeekText._chat as one call: the key check, the circuit check, then up
\* to attempts requests, of which oks[i] tells whether request i succeeded
_chat(has_key, circuit_open, oks) ==
    IF ~has_key THEN Returned("fallback", "no_deepseek_key", "")
    ELSE IF circuit_open THEN Returned("fallback", "busy", "")
    ELSE IF \E i \in 1..attempts : oks[i] THEN Returned("reply", "content", "")
    ELSE Returned("fallback", "brain_gone", "")

\* ZhipuVision.ask
ZhipuVision_ask(has_key, ok) ==
    IF ~has_key THEN Returned("fallback", "no_zhipu_key", "")
    ELSE IF ok THEN Returned("reply", "content", "")
    ELSE Returned("fallback", "image_load_failed", "")

\* what a call of AliyunImageEdit.edit can come to
EditOutcomes ==
    {"import_raises", "download_status", "download_raises", "sdk_raises", "sdk_error",
     "parse_raises", "no_image", "empty_output", "image"}

\* AliyunImageEdit.edit
AliyunImageEdit_edit(has_key, outcome) ==
    IF ~has_key THEN Returned("fallback", "no_aliyun_key", "")
    ELSE CASE outcome = "import_raises" ->
                Returned("fallback", "dashscope_missing", "exception")
           [] outcome = "download_status" ->
                Returned("fallback", "download_failed", "status_code")
           [] outcome \in {"download_raises", "sdk_raises"} ->
                Returned("fallback", "request_failed", "exception")
           [] outcome = "sdk_error" ->
                Returned("fallback", "edit_failed", "response_message")
           [] outcome = "parse_raises" ->
                Returned("fallback", "parse_failed", "exception")
           [] outcome = "no_image" -> Returned("fallback", "no_image_link", "")
           [] outcome = "empty_output" -> Returned("fallback", "empty_output", "")
           [] OTHER -> Returned("reply", "cq_image", "")

\* a handler calls a provider and sends what it returned with ctx.send_text
ProviderCall(provider, input, failed, returned) ==
    /\ nOps < MaxOps
    /\ nOps' = nOps + 1
    /\ mhist' = [mhist EXCEPT !.kind = "provider", !.op = provider,
                              !.provider = [name |-> provider, input |-> input,
                                            failed |-> failed,
                                            returned |-> returned, sent |-> returned]]
    /\ UNCHANGED <<now, disk, heap, rheap, _user_cache, _relation_cache, _bot_emotion, tasks,
                   dvars, bvars>>

ChatCall ==
    \E has_key \in BOOLEAN, circuit_open \in BOOLEAN, oks \in [1..attempts -> BOOLEAN] :
        ProviderCall("deepseek", <<has_key, circuit_open, oks>>, has_key /\ ~circuit_open /\ \A i \in 1..attempts : ~oks[i],
                     _chat(has_key, circuit_open, oks))

VisionCall ==
    \E has_key \in BOOLEAN, ok \in BOOLEAN :
        ProviderCall("vision", <<has_key, ok>>, has_key /\ ~ok, ZhipuVision_ask(has_key, ok))

EditCall ==
    \E has_key \in BOOLEAN, outcome \in EditOutcomes :
        ProviderCall("image_edit", <<has_key, outcome>>, has_key /\ outcome # "image",
                     AliyunImageEdit_edit(has_key, outcome))

ProvidersNext == ChatCall \/ VisionCall \/ EditCall

(* --------------------------- specifications --------------------------- *)
DispatchInit == now = 1 /\ DInit /\ BQuiet /\ MQuiet

\* the connection loop of handle_message over the rules of build_commands
Spec == DispatchInit /\ [][DNext]_vars

\* the connection with nothing but quoting messages and get_msg responses
SpecCallback == DispatchInit /\ [][CallbackNext]_vars

\* the connection with time passing and heartbeats dispatched for as long as
\* it lasts: handle_message reads every event the transport delivers
SpecKeep == DispatchInit /\ [][KeepNext]_vars /\ WF_vars(Tick) /\ WF_vars(Heartbeat)

\* the calls made on one DeepSeekText client
SpecBreaker == BInit /\ [][BNext]_vars

\* the managers of one process at start, over each file they can find
MemoryInit ==
    /\ now = stm_max_turns
    /\ \E f \in InitialFiles : MInitWith(f)
    /\ DQuiet
    /\ BQuiet

\* the memory operations of one user, called on the managers of one process
SpecMemory == MemoryInit /\ [][MNext]_vars

\* the memory operations of one user, called one after the other
SpecSequential == MemoryInit /\ [][SNext]_vars

\* the memory operations of one user, called from two connections
SpecConnections == MemoryInit /\ [][CNext]_vars

\* appends and extractions, one after the other, for a user whose long-term
\* memory is nearly full
LtmInit ==
    /\ now = max_ltm + 1
    /\ \E f \in LtmFiles : MInitWith(f)
    /\ DQuiet
    /\ BQuiet

SpecLtm == LtmInit /\ [][LNext]_vars

\* the connection loop of handle_message with the memory calls of the handlers
\* the rules of build_commands run
TurnsInit ==
    /\ now = stm_max_turns
    /\ DInit /\ ~router_runs
    /\ BQuiet
    /\ \E f \in InitialFiles : MInitWith(f)

SpecTurns == TurnsInit /\ [][TNext]_vars

\* update_bot_emotion called on the managers of one process
SpecEmotion == MemoryInit /\ [][ENext]_vars

\* a user whose last personality update is long ago
PersonalityInit ==
    /\ now = min_stm_for_personality + personality_update_cooldown
    /\ \E f \in PersonalityFiles : MInitWith(f)
    /\ DQuiet
    /\ BQuiet

SpecPersonality == PersonalityInit /\ [][PNext]_vars

\* the connection of such a user, with the rules running the handlers or
\* the router's functions
ReplyInit ==
    /\ now = min_stm_for_personality + personality_update_cooldown
    /\ \E f \in PersonalityFiles : MInitWith(f)
    /\ DInit
    /\ BQuiet

SpecReply == ReplyInit /\ [][RNext]_vars

\* a process before the first call of its recogniser and of update_bot_vad
RecognizeInit ==
    /\ now = 1
    /\ MQuiet
    /\ DQuiet
    /\ BQuiet

SpecRecognize == RecognizeInit /\ [][RecognizeNext]_vars

SpecRules == RecognizeInit /\ [][RulesNext]_vars

SpecVad == RecognizeInit /\ [][VadNext]_vars

SpecProviders == RecognizeInit /\ [][ProvidersNext]_vars

\* a user whose file holds a relation
TrustInit ==
    /\ now = stm_max_turns
    /\ \E f \in TrustFiles : MInitWith(f)
    /\ DQuiet
    /\ BQuiet

SpecTrust == TrustInit /\ [][TrustNext]_vars


(* ------------------------------ dispatch ------------------------------ *)
\* the event of the last dispatch has the shape of a callback response
CallbackShaped ==
    /\ last.kind = "dispatch"
    /\ last.status = "ok"
    /\ Len(last.echo) > 0
    /\ last.echo[1] = "reply_check_"

RuleNames == [i \in 1..Len(build_commands) |-> build_commands[i].name]
Ran == { last.ran[i] : i \in 1..Len(last.ran) }
\* the place in the rule list of the earliest rule that matches the last event
FirstMatching ==
    CHOOSE i \in 1..Len(build_commands) :
        /\ RuleNames[i] \in last.matching
        /\ \A j \in 1..(i - 1) : RuleNames[j] \notin last.matching

\* C1: an admitted event runs the handler of at most one rule, the earliest rule
\* of the list whose match predicate is true, and no rule after it is matched
\* or run.
C1_FirstMatchOnly ==
    (last.kind = "dispatch" /\ ~last.limited) =>
        IF last.matching = {}
        THEN last.ran = <<>> /\ last.evaluated = RuleNames
        ELSE /\ last.ran = <<RuleNames[FirstMatching]>>
             /\ last.evaluated = SubSeq(RuleNames, 1, FirstMatching)

\* an event that two rules match (a nickname command that mentions the bot) ran one
C1_Witness ==
    /\ last.kind = "dispatch" /\ ~last.limited
    /\ Cardinality(last.matching) >= 2
    /\ last.ran = <<"set_nickname">>

\* C2: a callback response is handled by the callback rule alone: no content
\* rule's handler runs for it, and without a pending entry nothing is sent.
C2_CallbackOnly ==
    CallbackShaped =>
        /\ Ran \subseteq {"reply_callback"}
        /\ Ran \cap ContentRules = {}
        /\ (last.echo \notin DOMAIN last.after_purge => last.sent = <<>>)

\* a callback with no entry for its token, that also carries a message's fields
C2_Witness ==
    /\ CallbackShaped
    /\ last.echo \notin DOMAIN last.after_purge
    /\ last.ran = <<"reply_callback">>
    /\ last.message_id = None
    /\ last.sent = <<>>

\* C3: once a callback has consumed the entry of token T, a later callback
\* carrying T sends nothing, invokes no provider and writes no memory.
C3_ConsumedTokenIsSilent ==
    (CallbackShaped /\ last.was_consumed) =>
        last.sent = <<>> /\ last.ai = <<>> /\ ~last.mem

\* C4: once dispatch has purged, no entry of the pending map is older than the TTL.
C4_NoEntryOlderThanTTL ==
    last.kind = "dispatch" =>
        \A k \in DOMAIN last.after_purge : now - last.stored_before[k] <= ttl_seconds

\* C5: an entry is never stored under a token whose entry is still pending.
C5_StoreNeverOverwrites ==
    last.kind = "dispatch" => StoredBy(last.sent) \cap DOMAIN last.after_purge = {}

\* C6 as stated: a rejected event gets exactly one wait notice that quotes it, no
\* rule is matched or run, dispatch returns True, and the purge has happened.
C6_RejectedQuoted ==
    (last.kind = "dispatch" /\ last.limited) =>
        /\ Len(last.sent) = 1
        /\ last.sent[1].text = "wait_notice"
        /\ last.sent[1].quote # None
        /\ last.sent[1].quote = last.message_id
        /\ last.evaluated = <<>> /\ last.ran = <<>>
        /\ last.result = TRUE
        /\ \A k \in DOMAIN pending_requests :
              \/ pending_requests[k].created_at = 0
              \/ now - pending_requests[k].created_at <= ttl_seconds

\* C6 amended: a rejected event gets exactly one wait notice, which quotes the
\* message when the event carries a message id; no rule is matched or run,
\* dispatch returns True, and the purge has happened before the rejection.
C6_Rejected ==
    (last.kind = "dispatch" /\ last.limited) =>
        /\ Len(last.sent) = 1
        /\ last.sent[1].action = "send_msg"
        /\ last.sent[1].text = "wait_notice"
        /\ last.sent[1].quote = last.message_id
        /\ last.evaluated = <<>> /\ last.ran = <<>>
        /\ last.result = TRUE
        /\ pending_requests = last.after_purge
        /\ \A k \in DOMAIN pending_requests :
              \/ pending_requests[k].created_at = 0
              \/ now - pending_requests[k].created_at <= ttl_seconds

\* a rejected event with a message id, at a time when an entry had expired
C6_Witness ==
    /\ last.kind = "dispatch" /\ last.limited
    /\ last.message_id # None
    /\ last.sent[1].quote = last.message_id
    /\ \E e \in EchoIds : nStored[e] > 0 /\ e \notin DOMAIN pending_requests
                          /\ e \notin consumed

\* C33: while events keep being dispatched, every pending entry is eventually
\* removed, by its callback or by the purge of a later dispatch
C33_EntryEventuallyRemoved ==
    \A e \in EchoIds :
        (e \in DOMAIN pending_requests) ~> (e \notin DOMAIN pending_requests \/ ~connected)

\* the last event was a callback whose token had an entry after the purge
Consumes ==
    /\ last.kind = "dispatch" /\ last.is_reply_callback
    /\ last.echo \in DOMAIN last.after_purge

\* C34: a callback that consumes an entry asks at most one provider: image
\* edit, with the url, when the fetched message has an image and the saved
\* text is "edit=" and an instruction; none when the instruction is empty;
\* vision, with the url, for any other saved text; text generation when the
\* fetched message has no image.  One reply is sent and the entry is removed.
C34_ProviderChoice ==
    Consumes =>
        LET saved == last.after_purge[last.echo]
            text  == normalize_user_text(saved.raw_msg)
            image == \E i \in 1..Len(last.data) : last.data[i].seg = "image"
            url   == extract_image_url(last.data)
            edit  == text # <<>> /\ Head(text).s \in {"edit=", "edit=x"}
        IN  /\ Len(last.asked) <= 1
            /\ image => url = "http://img?a=1&b=2"
            /\ last.asked =
                  IF ~image THEN <<Call("deepseek", "full_prompt")>>
                  ELSE IF ~edit THEN <<Call("vision", url)>>
                  ELSE IF Head(text).s = "edit=x" THEN <<Call("image_edit", url)>>
                  ELSE <<>>
            /\ last.ai = [i \in 1..Len(last.asked) |-> last.asked[i].provider]
            /\ Len(last.sent) = 1 /\ last.sent[1].action = "send_msg"
            /\ last.echo \notin DOMAIN pending_requests

\* a callback with an image for an entry whose saved text is an edit
\* instruction: image edit is asked with the unescaped url
C34_Witness ==
    /\ Consumes
    /\ last.asked = <<Call("image_edit", "http://img?a=1&b=2")>>
    /\ Len(last.sent) = 1
    /\ last.echo \notin DOMAIN pending_requests

\* C39: the reply of a callback goes to the conversation recorded in the
\* entry it consumed (its message type, and its group id or user id) and
\* quotes the message id stored there, the one its token names, whatever
\* fields the callback event carries and whatever was handled in between
C39_ReplyToSavedConversation ==
    Consumes =>
        LET saved == last.after_purge[last.echo]
            reply == last.sent[1]
        IN  /\ Len(last.sent) = 1
            /\ reply.action = "send_msg"
            /\ reply.message_type = saved.message_type
            /\ IF saved.message_type = "group"
               THEN reply.group_id = saved.group_id /\ reply.user_id = None
               ELSE reply.user_id = saved.user_id /\ reply.group_id = None
            /\ reply.quote = saved.message_id
            /\ EchoId(saved.message_id) = last.echo

\* a callback that carries the fields of a private message consumes, as the
\* fourth event, an entry stored for a group: the reply goes to the group
C39_Witness ==
    /\ Consumes
    /\ last.post_type = "message"
    /\ nEvents = MaxEvents
    /\ last.after_purge[last.echo].message_type = "group"
    /\ last.sent[1].group_id \in Groups
    /\ last.sent[1].quote = 1

(* ---------------------------- rate limiter ---------------------------- *)
\* the last event went through the user's window, which held N admitted calls
WindowFull ==
    /\ last.kind = "dispatch" /\ last.is_message_event /\ last.user_id # None
    /\ Len(last.u_before) = user_max_calls

\* C7 as stated: after N admitted calls, a call within W of the oldest is
\* rejected and a call made once W has elapsed, W itself included, is admitted.
C7_WindowInclusive ==
    WindowFull =>
        /\ (now - last.u_before[1] < window_seconds => ~last.u_ok)
        /\ (now - last.u_before[1] >= window_seconds => last.u_ok)

\* C7 amended: after N admitted calls, a call made at most W after the oldest
\* of them is rejected, and a call made more than W after it is admitted.
C7_Window ==
    WindowFull =>
        /\ (now - last.u_before[1] <= window_seconds => ~last.u_ok)
        /\ (now - last.u_before[1] > window_seconds => last.u_ok)

\* a call admitted again because the oldest of N admitted calls had left the window
C7_Witness ==
    /\ WindowFull
    /\ now - last.u_before[1] > window_seconds
    /\ last.u_ok

\* C32: a rejected event records no timestamp: after a rejection, one caused
\* by the full window of the conversation included, the sender's window is
\* what it was before the event, less the evicted timestamps
C32_RejectedRecordsNothing ==
    (last.kind = "dispatch" /\ last.limited /\ last.user_id # None) =>
        /\ last.user_id \in DOMAIN _user_calls
        /\ _user_calls[last.user_id] = _evict_old(last.u_before, now)

(* --------------------------- circuit breaker -------------------------- *)
\* C8: once a failure has left the failure count at the threshold, a call
\* started before cooldown_seconds have passed since then returns the busy reply
\* without invoking the provider, and a call started later invokes it.
C8_OpenThenRetried ==
    (blast.kind = "start" /\ api_key /\ lastTrip # None) =>
        IF now < lastTrip + cooldown_seconds
        THEN blast.result = "busy" /\ ~blast.invoked
        ELSE blast.invoked

\* a call started when the cooldown had just ended went to the provider
C8_Witness ==
    /\ blast.kind = "start" /\ lastTrip # None
    /\ now = lastTrip + cooldown_seconds
    /\ blast.invoked

\* C9: a call whose attempts all fail counts once toward the circuit breaker.
C9_OneCountPerCall ==
    \A c \in CallIds : calls[c].result = "fallback" => calls[c].counted = 1

\* C10: no request reaches the provider while the circuit is open.
C10_NoInvocationWhileOpen == blast.invoked => ~blast.open

\* C38: the end of a cooldown does not reset the failure count.  The count
\* changes only at a response: a failed attempt raises it by one and a
\* successful one returns it to zero.  A failed attempt made once the
\* cooldown has run out, the count still at the threshold or above, opens the
\* circuit again for cooldown_seconds from that moment.
C38_CountSurvivesCooldown ==
    [][ /\ _fail_count' # _fail_count =>
              \/ blast'.kind = "success" /\ _fail_count' = 0
              \/ blast'.kind = "failure" /\ _fail_count' = _fail_count + 1
        /\ (/\ blast'.kind = "failure"
            /\ _fail_count >= fail_threshold
            /\ ~_is_circuit_open(now, _circuit_open_until)) =>
              /\ _circuit_open_until' = now + cooldown_seconds
              /\ _is_circuit_open(now', _circuit_open_until') ]_vars

\* a cooldown has run out, and the first failed attempt after it has opened
\* the circuit again: the count is one above the threshold
C38_Witness ==
    /\ blast.kind = "failure" /\ blast.tripped
    /\ _fail_count = fail_threshold + 1
    /\ now >= 1 + cooldown_seconds
    /\ _circuit_open_until = now + cooldown_seconds

(* ------------------------------- memory ------------------------------- *)
\* get_user_state and get_relation of a manager whose caches are empty
Reload == StateOfData(_sync_read_json(disk))
ReloadRelation == RelationOfData(_sync_read_json(disk))

\* the state and the relation the manager m holds in its caches
CachedState(m) == heap[_user_cache[m]]
CachedRelation(m) == rheap[_relation_cache[m]]

InStm(msg, stm) == \E i \in 1..Len(stm) : stm[i] = msg

\* the last n turns of l
LastTurns(l, n) == IF Len(l) <= n THEN l ELSE SubSeq(l, Len(l) - n + 1, Len(l))

\* C11: operations on one user within one manager lose no update, overlapping
\* or not: once they have all completed (no write failed, nothing was cleared
\* and nothing had to be evicted), every turn that was appended is in the
\* short-term memory the manager holds and in the one the file holds.
C11_NoLostUpdate ==
    (/\ AllIdle
     /\ ~mhist.failed
     /\ ~mhist.cleared
     /\ Len(mhist.expect) <= stm_max_turns
     /\ mhist.appended # {}) =>
        \A msg \in mhist.appended :
            /\ InStm(msg, CachedState(1).short_term_memory)
            /\ InStm(msg, Reload.short_term_memory)

\* C12: after operations that completed one after the other with every save
\* succeeding, a manager with empty caches reads back the familiarity and the
\* trust the manager last held.
C12_RelationDurable ==
    (/\ AllIdle
     /\ ~mhist.overlapped
     /\ ~mhist.failed
     /\ _relation_cache[1] # 0) =>
        /\ ReloadRelation.familiarity = CachedRelation(1).familiarity
        /\ ReloadRelation.trust = CachedRelation(1).trust

\* C13: whatever happened to the writes, a load that follows the operations
\* (run one after the other) returns the record last saved in full.
C13_SaveAtomic ==
    (AllIdle /\ ~mhist.overlapped) => _sync_read_json(disk) = mhist.saved

\* C14: after operations that completed one after the other with every save
\* succeeding, the record on file loads to a state equal to the one the
\* manager holds: short-term and long-term memory, profile, personality and
\* counters.
C14_PersistedEqualsMemory ==
    (/\ AllIdle
     /\ ~mhist.overlapped
     /\ ~mhist.failed
     /\ _user_cache[1] # 0) =>
        Reload = CachedState(1)

\* an extraction that retained an entry was saved and loads back
C14_Witness ==
    /\ AllIdle /\ ~mhist.overlapped /\ ~mhist.failed
    /\ mhist.kind = "written" /\ mhist.op = "extract_ltm_from_stm"
    /\ _user_cache[1] # 0
    /\ CachedState(1).long_term_memory # <<>>
    /\ CachedState(1).profile.nickname = "nick"
    /\ Reload = CachedState(1)

\* C18: after any sequence of appends made one after the other, the
\* short-term memory holds at most stm_max_turns turns, and they are the most
\* recently appended ones in the order they were appended.
C18_StmWindow ==
    (~mhist.overlapped /\ ~mhist.failed /\ _user_cache[1] # 0) =>
        /\ Len(CachedState(1).short_term_memory) <= stm_max_turns
        /\ CachedState(1).short_term_memory = LastTurns(mhist.expect, stm_max_turns)

\* more turns were appended than short-term memory holds, and the oldest went
C18_Witness ==
    /\ ~mhist.overlapped /\ ~mhist.failed /\ _user_cache[1] # 0
    /\ mhist.kind \in {"start", "load"} /\ mhist.op = "append_to_stm"
    /\ Len(mhist.expect) > stm_max_turns + 1
    /\ Len(CachedState(1).short_term_memory) = stm_max_turns
    /\ CachedState(1).short_term_memory = LastTurns(mhist.expect, stm_max_turns)

\* C15: the connections of one process share one copy of a user's memory:
\* once the operations (run one after the other, nothing evicted) have
\* completed, every turn appended through one connection is in the state
\* each connection's manager holds and in the file.
C15_OneCopy ==
    (/\ AllIdle
     /\ ~mhist.overlapped
     /\ Len(mhist.expect) <= stm_max_turns) =>
        \A msg \in mhist.appended :
            /\ \A m \in Managers :
                  _user_cache[m] # 0 => InStm(msg, CachedState(m).short_term_memory)
            /\ InStm(msg, Reload.short_term_memory)

\* the updates of the bot emotion, in the order they were written
Updates == mhist.updates

\* C16: there is one bot emotion per process: every update, on whichever
\* connection, blends from the value the update before it wrote, and every
\* connection's manager reads the value written last.
C16_OneBotEmotion ==
    /\ \A i \in 2..Len(Updates) : Updates[i].prev = Updates[i - 1].new
    /\ Updates # <<>> =>
          \A m \in Managers : _bot_emotion[m] = Updates[Len(Updates)].new

\* C17: the updates made on one manager are serialized: each blends from the
\* value the manager held when it wrote, which is the default at first and the
\* result of the update before it afterwards.
C17_Serialized ==
    \A i \in 1..Len(Updates) :
        /\ Updates[i].prev = Updates[i].before
        /\ LET earlier == { j \in 1..(i - 1) : Updates[j].m = Updates[i].m }
           IN  Updates[i].prev =
                  IF earlier = {} THEN DefaultBotEmotion
                  ELSE Updates[CHOOSE j \in earlier : \A k \in earlier : k <= j].new

\* two updates on one manager overlapped, and the second blended from what
\* the first had written
C17_Witness ==
    /\ mhist.overlapped
    /\ Len(Updates) >= 2
    /\ Updates[1].m = Updates[2].m
    /\ Updates[2].prev = Updates[1].new
    /\ Updates[2].prev # DefaultBotEmotion
    /\ Updates[2].new # Updates[1].new

\* the entries of the last extraction's merged list that were not retained
Evicted(m) ==
    { mhist.merged[i] : i \in 1..Len(mhist.merged) } \
        { CachedState(m).long_term_memory[i] : i \in 1..Len(CachedState(m).long_term_memory) }

\* C20: after an extraction the long-term memory holds at most max_ltm
\* entries, and every entry it retained is at least as important as every
\* entry the extraction evicted.
C20_LtmBounded ==
    (_user_cache[1] # 0 /\ ~mhist.overlapped) =>
        LET ltm == CachedState(1).long_term_memory
        IN  /\ Len(ltm) <= max_ltm
            /\ mhist.op = "extract_ltm_from_stm" /\ mhist.kind \in {"start", "load"} =>
                  \A i \in 1..Len(ltm) : \A x \in Evicted(1) :
                      ltm[i].importance >= x.importance

\* an extraction added entries to a full long-term memory, kept one of them
\* and evicted older, less important ones
C20_Witness ==
    /\ _user_cache[1] # 0 /\ ~mhist.overlapped
    /\ mhist.op = "extract_ltm_from_stm" /\ mhist.kind \in {"start", "load"}
    /\ Len(mhist.merged) > max_ltm
    /\ Len(CachedState(1).long_term_memory) = max_ltm
    /\ \E x \in Evicted(1) : x.ts <= max_ltm
    /\ \E i \in 1..max_ltm : CachedState(1).long_term_memory[i].ts > max_ltm

\* C35: an extraction called again while short-term memory is unchanged
\* promotes no entry, returns an empty list and leaves long-term memory as it
\* was, at capacity too
C35_ExtractIdempotent ==
    (/\ mhist.op = "extract_ltm_from_stm"
     /\ mhist.prev_extract.called
     /\ mhist.extract.stm = mhist.prev_extract.stm
     /\ mhist.extract.before = mhist.prev_extract.after) =>
        /\ mhist.extract.extracted = <<>>
        /\ mhist.extract.after = mhist.extract.before

\* the arrival numbers of the messages that produced the turns short-term
\* memory holds, in the order of the turns
Producers ==
    LET stm == CachedState(1).short_term_memory
        off == Len(mhist.expect) - Len(stm)
    IN  [i \in 1..Len(stm) |-> mhist.producers[off + i]]

\* C19: on one connection the turns of a user's conversation are in
\* short-term memory in the order in which the messages that produced them
\* arrived, a message that quoted another one included.
C19_ArrivalOrder ==
    _user_cache[1] # 0 =>
        /\ CachedState(1).short_term_memory = LastTurns(mhist.expect, stm_max_turns)
        /\ \A i \in 1..Len(Producers) : \A j \in 1..Len(Producers) :
              i < j => Producers[i] <= Producers[j]

(* ----------------------------- personality ---------------------------- *)
\* the state the manager of the last classification holds
Classified == heap[_user_cache[mhist.pm]]

\* the classifier's call failed, or its response was no JSON
CallFailed == mhist.kind = "classified" /\ mhist.response.kind \in {"raises", "text"}

\* C21: maybe_update_personality replaces the personality only when the gate
\* is open at that time (enough new messages, and the cooldown over), and two
\* updates for one user are never closer together than the cooldown
C21_UpdatesSpaced ==
    /\ \A i \in 1..Len(mhist.pupdates) : mhist.pupdates[i].open
    /\ \A i, j \in 1..Len(mhist.pupdates) :
          i < j => mhist.pupdates[j].at - mhist.pupdates[i].at >= personality_update_cooldown

\* C22: when the classifier call fails or its response cannot be parsed, the
\* personality, the counter of new messages and the time of the last update
\* are as they were before, and the gate is open as it was
C22_FailureKeepsGate ==
    CallFailed =>
        /\ Classified.personality = mhist.before.personality
        /\ Classified.counters = mhist.before.counters
        /\ should_update_personality(mhist.before, now - 1)
              => should_update_personality(Classified, now - 1)

\* a failed call of a user whose gate was open
C22_Witness ==
    /\ CallFailed
    /\ should_update_personality(mhist.before, now - 1)
    /\ tasks[1].pc = "idle"

\* C23: a response that is a JSON object without all four factors is treated
\* as a failed call: the personality and the gate's counters stay as they were
C23_PartialObjectFails ==
    (/\ mhist.kind = "classified"
     /\ mhist.response.kind = "json"
     /\ mhist.response.json = "object"
     /\ ~(FactorNames \subseteq DOMAIN mhist.response.object))
    => /\ Classified.personality = mhist.before.personality
       /\ Classified.counters = mhist.before.counters

\* C36: whenever maybe_update_personality finds the gate open, it invokes
\* the classifier on the user's recent turns, whatever the length of
\* short-term memory
C36_OpenGateClassifies == mhist.gated.open => mhist.gated.asked

(* -------------------------- the event loop ---------------------------- *)
\* C24: a failure while one event is handled (an exception from a handler or
\* a custom command, or a message that cannot be parsed) does not end the
\* loop of the connection: the events after it are still read and dispatched
C24_LoopSurvives == last.raised => connected

\* C29: dispatch returns True exactly when the event was rate-limited or a
\* handler reported that it handled the event, and False when no rule matched
\* or the handler that ran reported that it did not
C29_ResultIsHandled ==
    (last.kind = "dispatch" /\ ~last.raised) =>
        (last.result <=>
            \/ last.limited
            \/ \E i \in 1..Len(last.reported) : last.reported[i])

\* C25: for a mentioned text handled with memory enabled, the coroutine that
\* sends the reply never waits for the long-term memory extraction or the
\* personality analysis (its classifier call included) before the send
C25_ReplyNotBlocked ==
    \A t \in TaskIds : tasks[t].op \in HandlerOps => tasks[t].pc \notin PostReplyWaits

(* ------------------------------ emotion ------------------------------- *)
\* C26: with a remote classifier configured, when its call times out or fails
\* with a network error, recognize_async returns exactly recognize(text)
C26_FallsBackToRules ==
    (/\ mhist.kind = "recognized"
     /\ mhist.recognized.use_llm
     /\ mhist.recognized.has_key
     /\ mhist.recognized.outcome.kind \in {"timeout", "error"})
    => mhist.recognized.result = recognize(mhist.recognized.text)

C31_RecognizeContract ==
    mhist.kind = "rule_recognized" =>
        LET text == mhist.rule.text
            result == mhist.rule.result
        IN  /\ result.label \in valid_labels
            /\ 0 <= result.intensity /\ result.intensity <= 100
            /\ 0 <= result.confidence /\ result.confidence <= 100
            /\ text.blank => result = UserEmotion("neutral", 30, 90)
            /\ (~text.blank /\ text.hits = <<>>) => result = UserEmotion("neutral", 30, 50)

\* three happy keywords and six exclamation marks: the summed score 2.1 and
\* the boost 0.6 are cut to an intensity of 1.0
C31_Witness ==
    /\ mhist.kind = "rule_recognized"
    /\ ScoreOf(mhist.rule.text.hits, "happy") = 210
    /\ mhist.rule.text.punct = 60
    /\ mhist.rule.result = UserEmotion("happy", 100, 85)

\* the distance between two values
Distance(x, y) == IF x >= y THEN x - y ELSE y - x

\* C37: after an update with the label neutral, each of V, A and D is at
\* least as close to its baseline as before the update, with or without
\* relationship data
C37_NeutralDecays ==
    (mhist.kind = "vad" /\ mhist.vad.label = "neutral") =>
        LET before == mhist.vad.before
            after == _bot_emotion[1]
        IN  /\ Distance(after.V, after.V0) <= Distance(before.V, before.V0)
            /\ Distance(after.A, after.A0) <= Distance(before.A, before.A0)
            /\ Distance(after.D, after.D0) <= Distance(before.D, before.D0)

(* ------------------------------ relation ------------------------------ *)
\* what update_relation_on_negative_emotion is to do to the trust of the last
\* call: not raise it, not leave it under 0.1, lower it by trust_step times
\* the intensity down to 0.1 when the intensity is above 0.6, else keep it
TrustRule ==
    /\ mhist.trust.after <= mhist.trust.before
    /\ mhist.trust.after >= Unit \div 10
    /\ mhist.trust.after =
          IF mhist.trust.intensity > 6
          THEN Max(Unit \div 10,
                   mhist.trust.before - (trust_step * mhist.trust.intensity) \div 10)
          ELSE mhist.trust.before

NegativeCall == mhist.trust.op = "update_relation_on_negative_emotion"

FixedFallbacks ==
    {"no_deepseek_key", "busy", "brain_gone", "no_zhipu_key", "image_load_failed",
     "no_aliyun_key", "no_image_link", "empty_output"}

\* C30: when a text-generation, vision or image-edit call fails, the call
\* returns, and the user is sent, one of a fixed set of fallback messages
\* with no error text in it, and nothing is raised
C30_FailsClosed ==
    (mhist.kind = "provider" /\ mhist.provider.failed) =>
        /\ mhist.provider.returned.kind = "fallback"
        /\ mhist.provider.returned.text \in FixedFallbacks
        /\ mhist.provider.returned.detail = ""
        /\ mhist.provider.sent.detail = ""

====
